---- MODULE Spec2Model ----
(***************************************************************************)
(* Model of textual-window's tiling layout engine (tiling.py) and of the  *)
(* window manager's registry / focus / retiling logic (manager.py).       *)
(*                                                                         *)
(* Two specifications share the module:                                    *)
(*   CalcSpec  applies the pure function calculate_tiling_positions to    *)
(*             inputs drawn from bounded sets;                             *)
(*   Spec      runs the WindowManager's operations.                        *)
(***************************************************************************)
EXTENDS Integers, Sequences, FiniteSets, TLC

(***************************************************************************)
(* Bounds of the model.                                                    *)
(***************************************************************************)
NumObjs == 5       \* Window objects the host application has created
MaxLen == 4        \* longest window list handed to the calculator
MaxGap == 1        \* largest gap value tried
MaxOps == 3        \* operations of the manager in one run

(***************************************************************************)
(* Window objects.  A Window is an object of the host framework; the code *)
(* reads its id (window.id).  Ids are modelled as integers; id 0 stands   *)
(* for a window whose id is not set (None / empty string).  Two distinct  *)
(* objects may carry the same id.                                          *)
(***************************************************************************)
Objs == 1..NumObjs
NoIdObj == NumObjs            \* an object whose id is not set
DupObj == NumObjs - 1         \* an object that carries the same id as object 1
NoId == 0

IdOf(o) == IF o = NoIdObj THEN NoId ELSE IF o = DupObj THEN 1 ELSE o

(***************************************************************************)
(* TilingLayout enumeration (tiling.py).  UNSUPPORTED stands for any      *)
(* value that is none of the five members.                                 *)
(***************************************************************************)
FLOATING == "floating"
HORIZONTAL_SPLIT == "horizontal_split"
VERTICAL_SPLIT == "vertical_split"
GRID == "grid"
MASTER_DETAIL == "master_detail"
UNSUPPORTED == "unsupported"

TilingLayout == {FLOATING, HORIZONTAL_SPLIT, VERTICAL_SPLIT, GRID, MASTER_DETAIL}

min_window_width == 12
min_window_height == 6

(***************************************************************************)
(* Arithmetic helpers of calculate_tiling_positions.                       *)
(***************************************************************************)
\* math.ceil(math.sqrt(n)) for n >= 1: the least c with c*c >= n
CeilSqrt(n) == CHOOSE c \in 1..n : c * c >= n /\ \A d \in 1..(c - 1) : d * d < n

\* math.ceil(n / c) for n >= 1, c >= 1
CeilDiv(n, c) == (n + c - 1) \div c

\* lines 117-118 and 190-191: the grid's dimensions
grid_cols(window_count) == CeilSqrt(window_count)

grid_rows(window_count) == CeilDiv(window_count, grid_cols(window_count))

\* Variant: round(total_width * 0.6) instead of int(...).
MasterWidthRounded(total_width) == (total_width * 6 + 5) \div 10

\* int(total_width * 0.6): the product truncated toward zero
MasterWidthOf(total_width) ==
  IF total_width >= 0 THEN (total_width * 6) \div 10
  ELSE -(((-total_width) * 6) \div 10)

Geom(x, y, w, h) == [x |-> x, y |-> y, width |-> w, height |-> h]

\* result[key] = value on a dict
AssignEntry(result, key, value) ==
  [k \in (DOMAIN result) \cup {key} |-> IF k = key THEN value ELSE result[k]]

EmptyDict == [k \in {} |-> Geom(0, 0, 0, 0)]

\* the calculator's two outcomes: a returned dict, or a raised ValueError
Returned(positions) == [error |-> "none", positions |-> positions]
Raised(kind) == [error |-> kind, positions |-> EmptyDict]

\* Variant: the dict is keyed by the loop index instead of window.id.
assign_results_by_index(windows, geoms, n) == [k \in 1..n |-> geoms[k]]

\* Variant: the loop runs over sorted(windows, key=id), so that the smallest id
\* gets the first place whatever the order of the list.
assign_results_sorted(windows, geoms, n) ==
  LET ids == {windows[k] : k \in 1..n}
  IN  [id \in ids |-> geoms[Cardinality({j \in ids : j <= id})]]

\* for i, window in enumerate(windows): result[window.id] = geoms[i]
\* The calculator reads nothing of a window but its id, so its "windows"
\* argument is modelled as the list of the windows' ids.
\* (geoms is indexed 1..Len(windows); entry n belongs to Python index n-1)
RECURSIVE assign_results(_, _, _)
assign_results(windows, geoms, n) ==
  IF n = 0 THEN EmptyDict
  ELSE AssignEntry(assign_results(windows, geoms, n - 1), windows[n], geoms[n])

(***************************************************************************)
(* calculate_tiling_positions, lines 72-86: edge cases and validation.     *)
(***************************************************************************)
\* Variant: the Floating early return is missing.
is_edge_case_empty_only(windows, layout) == windows = <<>>

\* "if not windows: return {}" / "if layout == FLOATING: return {}"
is_edge_case(windows, layout) == windows = <<>> \/ layout = FLOATING

\* Variant: "< 0" instead of "<= 0".
invalid_container_strict(container_size) ==
  container_size.width < 0 \/ container_size.height < 0

\* "if container_size.width <= 0 or container_size.height <= 0: raise"
invalid_container(container_size) ==
  container_size.width <= 0 \/ container_size.height <= 0

\* "if gap < 0: raise"
invalid_gap(gap) == gap < 0

(***************************************************************************)
(* Lines 99-139: "Validate that gaps don't consume too much space".        *)
(* TRUE when that block raises.                                            *)
(***************************************************************************)
gap_validation_fails(layout, window_count, container_size, gap) ==
  LET vertical_gap == gap
      horizontal_gap == gap * 2
  IN  IF layout = HORIZONTAL_SPLIT THEN
        LET total_gap_space == 2 * horizontal_gap + horizontal_gap * (window_count - 1)
            available_width == container_size.width - total_gap_space
            available_height == container_size.height - 2 * vertical_gap
            min_required_width == window_count * min_window_width
        IN  available_width < min_required_width \/ available_height < min_window_height
      ELSE IF layout = VERTICAL_SPLIT THEN
        LET total_gap_space == 2 * vertical_gap + vertical_gap * (window_count - 1)
            available_height == container_size.height - total_gap_space
            available_width == container_size.width - 2 * horizontal_gap
            min_required_height == window_count * min_window_height
        IN  available_height < min_required_height \/ available_width < min_window_width
      ELSE IF layout = GRID THEN
        LET cols == grid_cols(window_count)
            rows == grid_rows(window_count)
            total_horizontal_gap_space == 2 * horizontal_gap + horizontal_gap * (cols - 1)
            total_vertical_gap_space == 2 * vertical_gap + vertical_gap * (rows - 1)
            available_width == container_size.width - total_horizontal_gap_space
            available_height == container_size.height - total_vertical_gap_space
            min_required_width == cols * min_window_width
            min_required_height == rows * min_window_height
        IN  available_width < min_required_width \/ available_height < min_required_height
      ELSE IF layout = MASTER_DETAIL /\ window_count > 1 THEN
        LET detail_count == window_count - 1
            total_detail_gap_space == 2 * vertical_gap + vertical_gap * (detail_count - 1)
            available_detail_height == container_size.height - total_detail_gap_space
            min_required_detail_height == detail_count * min_window_height
            total_width == container_size.width - 2 * horizontal_gap
            master_width == MasterWidthOf(total_width)
            detail_width == total_width - master_width - horizontal_gap
        IN  \/ available_detail_height < min_required_detail_height
            \/ detail_width < min_window_width \/ master_width < min_window_width
      ELSE FALSE

(***************************************************************************)
(* Lines 141-162: HORIZONTAL_SPLIT.                                        *)
(***************************************************************************)
\* Variant: the outer left margin is forgotten.
horizontal_split_place_no_margin(i, window_width, window_height, horizontal_gap, vertical_gap) ==
  Geom(i * (window_width + horizontal_gap), vertical_gap, window_width, window_height)

\* lines 157-161, the loop body for Python index i
horizontal_split_place(i, window_width, window_height, horizontal_gap, vertical_gap) ==
  LET x_offset == horizontal_gap + i * (window_width + horizontal_gap)
      y_offset == vertical_gap
  IN  Geom(x_offset, y_offset, window_width, window_height)

horizontal_split(windows, container_size, gap) ==
  LET window_count == Len(windows)
      vertical_gap == gap
      horizontal_gap == gap * 2
      total_gap_space == 2 * horizontal_gap + horizontal_gap * (window_count - 1)
      available_width == container_size.width - total_gap_space
      window_width == available_width \div window_count
      available_height == container_size.height - 2 * vertical_gap
      window_height == available_height
      geoms == [n \in 1..window_count |->
                 horizontal_split_place(n - 1, window_width, window_height,
                                        horizontal_gap, vertical_gap)]
  IN  IF window_width < min_window_width \/ window_height < min_window_height
      THEN Raised("LayoutTooCramped")
      ELSE Returned(assign_results(windows, geoms, window_count))

(***************************************************************************)
(* Lines 164-185: VERTICAL_SPLIT.                                          *)
(***************************************************************************)
\* Variant: the outer top margin is forgotten.
vertical_split_place_no_margin(i, window_width, window_height, horizontal_gap, vertical_gap) ==
  Geom(horizontal_gap, i * (window_height + vertical_gap), window_width, window_height)

\* lines 180-184, the loop body for Python index i
vertical_split_place(i, window_width, window_height, horizontal_gap, vertical_gap) ==
  LET x_offset == horizontal_gap
      y_offset == vertical_gap + i * (window_height + vertical_gap)
  IN  Geom(x_offset, y_offset, window_width, window_height)

vertical_split(windows, container_size, gap) ==
  LET window_count == Len(windows)
      vertical_gap == gap
      horizontal_gap == gap * 2
      total_gap_space == 2 * vertical_gap + vertical_gap * (window_count - 1)
      available_height == container_size.height - total_gap_space
      window_height == available_height \div window_count
      available_width == container_size.width - 2 * horizontal_gap
      window_width == available_width
      geoms == [n \in 1..window_count |->
                 vertical_split_place(n - 1, window_width, window_height,
                                      horizontal_gap, vertical_gap)]
  IN  IF window_width < min_window_width \/ window_height < min_window_height
      THEN Raised("LayoutTooCramped")
      ELSE Returned(assign_results(windows, geoms, window_count))

(***************************************************************************)
(* Lines 187-214: GRID.                                                    *)
(***************************************************************************)
\* Variant: column and row are swapped (col = i // cols, row = i % cols).
grid_place_transposed(i, cols, window_width, window_height, horizontal_gap, vertical_gap) ==
  LET col == i \div cols
      row == i % cols
  IN  Geom(horizontal_gap + col * (window_width + horizontal_gap),
           vertical_gap + row * (window_height + vertical_gap),
           window_width, window_height)

\* lines 207-213, the loop body for Python index i
grid_place(i, cols, window_width, window_height, horizontal_gap, vertical_gap) ==
  LET col == i % cols
      row == i \div cols
      x_offset == horizontal_gap + col * (window_width + horizontal_gap)
      y_offset == vertical_gap + row * (window_height + vertical_gap)
  IN  Geom(x_offset, y_offset, window_width, window_height)

grid(windows, container_size, gap) ==
  LET window_count == Len(windows)
      vertical_gap == gap
      horizontal_gap == gap * 2
      cols == grid_cols(window_count)
      rows == grid_rows(window_count)
      total_horizontal_gap_space == 2 * horizontal_gap + horizontal_gap * (cols - 1)
      total_vertical_gap_space == 2 * vertical_gap + vertical_gap * (rows - 1)
      available_width == container_size.width - total_horizontal_gap_space
      available_height == container_size.height - total_vertical_gap_space
      window_width == available_width \div cols
      window_height == available_height \div rows
      geoms == [n \in 1..window_count |->
                 grid_place(n - 1, cols, window_width, window_height,
                            horizontal_gap, vertical_gap)]
  IN  IF window_width < min_window_width \/ window_height < min_window_height
      THEN Raised("LayoutTooCramped")
      ELSE Returned(assign_results(windows, geoms, window_count))

(***************************************************************************)
(* Lines 216-257: MASTER_DETAIL.                                           *)
(***************************************************************************)
\* lines 252-256, the loop body for i of enumerate(windows[1:], 1)
master_detail_place(i, master_width, detail_width, detail_height, horizontal_gap, vertical_gap) ==
  LET detail_x == horizontal_gap + master_width + horizontal_gap
      detail_y == vertical_gap + (i - 1) * (detail_height + vertical_gap)
  IN  Geom(detail_x, detail_y, detail_width, detail_height)

master_detail(windows, container_size, gap) ==
  LET window_count == Len(windows)
      vertical_gap == gap
      horizontal_gap == gap * 2
  IN  IF window_count = 1 THEN
        \* single window with outer gaps; no minimum-size validation here
        Returned(assign_results(windows,
                   <<Geom(horizontal_gap, vertical_gap,
                          container_size.width - 2 * horizontal_gap,
                          container_size.height - 2 * vertical_gap)>>, 1))
      ELSE
        LET total_width == container_size.width - 2 * horizontal_gap
            master_width == MasterWidthOf(total_width)
            detail_width == total_width - master_width - horizontal_gap
            detail_count == window_count - 1
            total_detail_gap_space == 2 * vertical_gap + vertical_gap * (detail_count - 1)
            available_detail_height == container_size.height - total_detail_gap_space
            detail_height == available_detail_height \div detail_count
            geoms == [n \in 1..window_count |->
                       IF n = 1
                       THEN Geom(horizontal_gap, vertical_gap, master_width,
                                 container_size.height - 2 * vertical_gap)
                       ELSE master_detail_place(n - 1, master_width, detail_width,
                                                detail_height, horizontal_gap, vertical_gap)]
        IN  IF master_width < min_window_width \/ detail_width < min_window_width
            THEN Raised("LayoutTooCramped")
            ELSE IF detail_height < min_window_height
            THEN Raised("LayoutTooCramped")
            ELSE Returned(assign_results(windows, geoms, window_count))

(***************************************************************************)
(* calculate_tiling_positions (tiling.py lines 48-262).                    *)
(***************************************************************************)
calculate_tiling_positions(windows, layout, container_size, gap) ==
  IF is_edge_case(windows, layout) THEN Returned(EmptyDict)
  ELSE IF invalid_container(container_size) THEN Raised("InvalidContainer")
  ELSE IF invalid_gap(gap) THEN Raised("InvalidGap")
  ELSE IF gap_validation_fails(layout, Len(windows), container_size, gap)
       THEN Raised("LayoutTooCramped")
  ELSE IF layout = HORIZONTAL_SPLIT THEN horizontal_split(windows, container_size, gap)
  ELSE IF layout = VERTICAL_SPLIT THEN vertical_split(windows, container_size, gap)
  ELSE IF layout = GRID THEN grid(windows, container_size, gap)
  ELSE IF layout = MASTER_DETAIL THEN master_detail(windows, container_size, gap)
  ELSE Raised("UnsupportedLayout")

(***************************************************************************)
(* State.                                                                  *)
(***************************************************************************)
VARIABLES
  \* --- one call of calculate_tiling_positions (CalcSpec) ---
  arg_windows,            \* windows argument (the ids, in list order)
  arg_layout,             \* layout argument
  arg_container_size,     \* container_size argument
  arg_gap,                \* gap argument
  result,                 \* what the call returned or raised; "pending" before the call
  \* --- WindowManager (Spec) ---
  tiling_layout,          \* reactive tiling_layout
  window_gap,             \* reactive window_gap
  _windows,               \* dict id -> Window, as the list of its items in insertion order
  _window_order,          \* list of ids: the tiling order
  _windowbar,             \* TRUE when a WindowBar is registered
  _last_focused_window,   \* a Window object, or None
  _recent_focus_order,    \* list of Window objects, most recently focused first
  _closing_in_progress,
  _num_of_temporary_windows,
  _checked_in_closing_windows,
  after_refresh,          \* callbacks handed to call_after_refresh and not yet run
  closing_in_progress,    \* the attribute the callback of line 288 sets (no underscore)
  mouse_captured,         \* app.mouse_captured: the widget that receives the mouse events
  titlebar,               \* the TitleBar of the window Dragged
  resizer,                \* the Resizer of the window Dragged
  win,                    \* the Window objects' own fields
  screen_size,            \* calculate_available_screen_space(app)
  container_offset,       \* calculate_window_container_offset(app)
  outcome,                \* the last operation: name, argument, what it raised, logged, told the
                          \* bar, the windows it restored from maximized, whether it
                          \* computed a layout while a registered window was maximized,
                          \* the window it gave the focus to, and what it returned
  ops                     \* number of operations run so far

calc_vars == <<arg_windows, arg_layout, arg_container_size, arg_gap, result>>

mgr_vars == <<tiling_layout, window_gap, _windows, _window_order, _windowbar,
              _last_focused_window, _recent_focus_order, _closing_in_progress,
              _num_of_temporary_windows, _checked_in_closing_windows, after_refresh,
              closing_in_progress, mouse_captured, titlebar, resizer,
              win, screen_size, container_offset, outcome, ops>>

vars == <<calc_vars, mgr_vars>>

None == 0       \* Python's None where a Window object is expected
Range(seq) == {seq[i] : i \in DOMAIN seq}

\* calculate_tiling_positions has not been called
Pending == [error |-> "pending", positions |-> EmptyDict]

NoCall ==
  /\ arg_windows = <<>>
  /\ arg_layout = FLOATING
  /\ arg_container_size = [width |-> 0, height |-> 0]
  /\ arg_gap = 0
  /\ result = Pending

\* all lists of at most n pairwise distinct elements of S
DistinctSeqs(S, n) ==
  {q \in UNION {[1..k -> S] : k \in 0..n} : \A i, j \in DOMAIN q : i # j => q[i] # q[j]}

(***************************************************************************)
(* The manager after WindowManager.__init__ (manager.py lines 57-80), and *)
(* the Window objects before any of them registers.                        *)
(***************************************************************************)
ScreenSizes == {[width |-> 100, height |-> 40], [width |-> 20, height |-> 7]}
ContainerOffsets == {[x |-> 0, y |-> 1]}

\* window.window_mode, fixed when the Window is constructed
window_mode(o) == IF o % 2 = 0 THEN "temporary" ELSE "permanent"

\* a Window as constructed: floating at an offset of its own
NewWindow(o) ==
  [open_state |-> TRUE, maximize_state |-> FALSE,
   snap_state |-> FALSE,
   x |-> o, y |-> o, width |-> 20 + o, height |-> 10 + o,
   starting_width |-> 20 + o, starting_height |-> 10 + o]

\* an attribute that has not been set on the object
Unset == "unset"

Offset(x, y) == [x |-> x, y |-> y]

\* the window whose TitleBar and Resizer the mouse works on
Dragged == 1

\* TitleBar.__init__ (windowcomponents.py lines 667-673). due stands for
\* time.time() - _last_update_time >= 0.0167, and scheduled counts the
\* _apply_accumulated_movement callbacks handed to call_after_refresh and not
\* yet run. For the drag that is under way or was last under way, offset_on_down
\* is window.offset when the button went down, carried is _accumulated_delta at
\* that moment, and received is the sum of event.delta of its moves.
NewTitleBar ==
  [_accumulated_delta |-> Offset(0, 0), _update_pending |-> FALSE, due |-> TRUE,
   scheduled |-> 0,
   offset_on_down |-> Offset(0, 0), carried |-> Offset(0, 0), received |-> Offset(0, 0)]

\* Resizer.__init__ (lines 573-579); due and
\* scheduled as for the TitleBar, for _apply_resize
NewResizer ==
  [_last_mouse_position |-> Offset(0, 0), _update_pending |-> FALSE, due |-> TRUE,
   scheduled |-> 0,
   position_on_down |-> Unset, size_on_down |-> Unset]

\* an operation that returns None
NoReturn == [kind |-> "None"]

NoOutcome ==
  [op |-> "init", arg |-> None, raised |-> "none", warned |-> "none", bar |-> "none",
   restored |-> {}, tiled_maximized |-> FALSE, focused |-> None, returned |-> NoReturn]

\* WindowManager.__init__, in an application whose screen leaves screen_size
\* to the windows
Constructed(screen, offset) ==
  [tiling_layout |-> FLOATING, window_gap |-> 0,
   _windows |-> <<>>, _window_order |-> <<>>, _windowbar |-> FALSE,
   _last_focused_window |-> None, _recent_focus_order |-> <<>>,
   _closing_in_progress |-> FALSE, _num_of_temporary_windows |-> 0,
   _checked_in_closing_windows |-> 0, after_refresh |-> 0,
   closing_in_progress |-> Unset,
   mouse_captured |-> "none", titlebar |-> NewTitleBar, resizer |-> NewResizer,
   win |-> [o \in Objs |-> NewWindow(o)],
   screen_size |-> screen, container_offset |-> offset,
   op |-> "init", arg |-> None, raised |-> "none", warned |-> "none", bar |-> "none",
   restored |-> {}, tiled_maximized |-> FALSE, focused |-> None, returned |-> NoReturn]

\* the variables hold the manager state m, and no operation has run yet
StateIs(m) ==
  /\ tiling_layout = m.tiling_layout
  /\ window_gap = m.window_gap
  /\ _windows = m._windows
  /\ _window_order = m._window_order
  /\ _windowbar = m._windowbar
  /\ _last_focused_window = m._last_focused_window
  /\ _recent_focus_order = m._recent_focus_order
  /\ _closing_in_progress = m._closing_in_progress
  /\ _num_of_temporary_windows = m._num_of_temporary_windows
  /\ _checked_in_closing_windows = m._checked_in_closing_windows
  /\ after_refresh = m.after_refresh
  /\ closing_in_progress = m.closing_in_progress
  /\ mouse_captured = m.mouse_captured
  /\ titlebar = m.titlebar
  /\ resizer = m.resizer
  /\ win = m.win
  /\ screen_size = m.screen_size
  /\ container_offset = m.container_offset
  /\ outcome = NoOutcome
  /\ ops = 0

MgrInit ==
  \E screen \in ScreenSizes, offset \in ContainerOffsets :
    StateIs(Constructed(screen, offset))

(***************************************************************************)
(* Python lists and dicts.                                                 *)
(***************************************************************************)
\* list.remove(x): removes the first occurrence
ListRemove(l, x) ==
  LET first == CHOOSE i \in DOMAIN l : l[i] = x /\ \A j \in 1..(i - 1) : l[j] # x
  IN  SubSeq(l, 1, first - 1) \o SubSeq(l, first + 1, Len(l))

\* list.insert(i, x) for a Python index 0 <= i <= len(l)
ListInsert(l, i, x) == SubSeq(l, 1, i) \o <<x>> \o SubSeq(l, i + 1, Len(l))

\* list.index(x) as a Python index
ListIndex(l, x) == (CHOOSE i \in DOMAIN l : l[i] = x /\ \A j \in 1..(i - 1) : l[j] # x) - 1

\* the dict self._windows is the list of its items, in insertion order
DictKeys(d) == {d[i].id : i \in DOMAIN d}

DictGet(d, id) == d[CHOOSE i \in DOMAIN d : d[i].id = id].win

\* d[id] = w: an existing key keeps its place, a new key goes last
DictSet(d, id, w) ==
  IF id \in DictKeys(d)
  THEN [i \in DOMAIN d |-> IF d[i].id = id THEN [id |-> id, win |-> w] ELSE d[i]]
  ELSE Append(d, [id |-> id, win |-> w])

DictPop(d, id) == SelectSeq(d, LAMBDA item : item.id # id)

DictValues(d) == [i \in DOMAIN d |-> d[i].win]

(***************************************************************************)
(* The manager's state as one record, so that a handler is a function     *)
(* from the state before to the state after, and handlers can call each   *)
(* other.                                                                  *)
(***************************************************************************)
Mgr ==
  [tiling_layout |-> tiling_layout, window_gap |-> window_gap,
   _windows |-> _windows, _window_order |-> _window_order, _windowbar |-> _windowbar,
   _last_focused_window |-> _last_focused_window,
   _recent_focus_order |-> _recent_focus_order,
   _closing_in_progress |-> _closing_in_progress,
   _num_of_temporary_windows |-> _num_of_temporary_windows,
   _checked_in_closing_windows |-> _checked_in_closing_windows,
   after_refresh |-> after_refresh, closing_in_progress |-> closing_in_progress,
   mouse_captured |-> mouse_captured, titlebar |-> titlebar, resizer |-> resizer,
   win |-> win,
   screen_size |-> screen_size, container_offset |-> container_offset,
   op |-> "init", arg |-> None, raised |-> "none", warned |-> "none", bar |-> "none",
   restored |-> {}, tiled_maximized |-> FALSE, focused |-> None, returned |-> NoReturn]

\* the state in which operation op starts
Begin(op) == [Mgr EXCEPT !.op = op]

\* the state in which operation op starts with argument arg
BeginWith(op, arg) == [Mgr EXCEPT !.op = op, !.arg = arg]

\* the operation ends in state m
Install(m) ==
  /\ tiling_layout' = m.tiling_layout
  /\ window_gap' = m.window_gap
  /\ _windows' = m._windows
  /\ _window_order' = m._window_order
  /\ _windowbar' = m._windowbar
  /\ _last_focused_window' = m._last_focused_window
  /\ _recent_focus_order' = m._recent_focus_order
  /\ _closing_in_progress' = m._closing_in_progress
  /\ _num_of_temporary_windows' = m._num_of_temporary_windows
  /\ _checked_in_closing_windows' = m._checked_in_closing_windows
  /\ after_refresh' = m.after_refresh
  /\ closing_in_progress' = m.closing_in_progress
  /\ mouse_captured' = m.mouse_captured
  /\ titlebar' = m.titlebar
  /\ resizer' = m.resizer
  /\ win' = m.win
  /\ screen_size' = m.screen_size
  /\ container_offset' = m.container_offset
  /\ outcome' = [op |-> m.op, arg |-> m.arg, raised |-> m.raised,
                 warned |-> m.warned, bar |-> m.bar,
                 restored |-> m.restored, tiled_maximized |-> m.tiled_maximized,
                 focused |-> m.focused, returned |-> m.returned]
  /\ ops' = ops + 1
  /\ UNCHANGED calc_vars

\* "raise ..." : the operation stops here
Raise(m, kind) == [m EXCEPT !.raised = kind]

(***************************************************************************)
(* Retiling (manager.py lines 468-567).                                    *)
(***************************************************************************)
\* lines 479-482 (and 680-683, 710-713, 740-743, 760-763)
open_windows_in_order(m) ==
  LET ids == SelectSeq(m._window_order,
                       LAMBDA id : id \in DictKeys(m._windows)
                                   /\ m.win[DictGet(m._windows, id)].open_state)
  IN  [i \in 1..Len(ids) |-> DictGet(m._windows, ids[i])]

\* [w for w in self._windows.values() if w.open_state]  (lines 403, 445, 831)
open_windows_in_dict_order(m) ==
  SelectSeq(DictValues(m._windows), LAMBDA w : m.win[w].open_state)

\* what the calculator reads of a list of windows
WindowIdsOf(windows) == [i \in DOMAIN windows |-> IdOf(windows[i])]

\* lines 500-515 / 552-567: "Apply new positions and sizes to each window"
apply_positions(m, windows, positions) ==
  LET placed(o) ==
        LET position == positions[IdOf(o)]
        IN  [m.win[o] EXCEPT !.width = position.width,
                             !.height = position.height,
                             !.x = position.x + m.container_offset.x,
                             !.y = position.y + m.container_offset.y,
                             !.starting_width = position.width,
                             !.starting_height = position.height]
  IN  [m EXCEPT !.win = [o \in Objs |->
                           IF o \in Range(windows) /\ IdOf(o) \in DOMAIN positions
                           THEN placed(o) ELSE m.win[o]]]

\* Variant: the except clause logs and re-raises, as get_tiling_position does.
retile_fallback_reraise(m, message) ==
  [m EXCEPT !.warned = message, !.tiling_layout = FLOATING, !.raised = "ValueError"]

\* lines 494-498 / 546-550: "except ValueError": log a warning, fall back to
\* floating mode, return.  (Setting tiling_layout runs watch_tiling_layout,
\* which does nothing for FLOATING.)
retile_fallback(m, message) ==
  [m EXCEPT !.warned = message, !.tiling_layout = FLOATING]

\* lines 493 / 545: the layout is computed now; noted when a registered window
\* is maximized at this moment
computing_layout(m) ==
  [m EXCEPT !.tiled_maximized =
     @ \/ \E o \in Range(DictValues(m._windows)) : m.win[o].maximize_state]

\* _retile_all_windows, lines 468-515
retile_all_windows(m) ==
  IF m.tiling_layout = FLOATING THEN m
  ELSE LET open_windows == open_windows_in_order(m)
       IN  IF open_windows = <<>> THEN m
           ELSE LET m0 == computing_layout(m)
                    positions == calculate_tiling_positions(
                       WindowIdsOf(open_windows), m.tiling_layout, m.screen_size, m.window_gap)
                IN  IF positions.error # "none"
                    THEN retile_fallback(m0, "Retiling failed")
                    ELSE apply_positions(m0, open_windows, positions.positions)

\* Variant: the ids that were not given come first.
new_window_order_leftovers_first(window_order, ordered_windows) ==
  SelectSeq(window_order, LAMBDA id : id \notin Range(WindowIdsOf(ordered_windows)))
    \o WindowIdsOf(ordered_windows)

\* Variant: the stored order becomes the given order only.
new_window_order_given_only(window_order, ordered_windows) == WindowIdsOf(ordered_windows)

\* lines 531-537: the new stored order
new_window_order(window_order, ordered_windows) ==
  WindowIdsOf(ordered_windows)
    \o SelectSeq(window_order, LAMBDA id : id \notin Range(WindowIdsOf(ordered_windows)))

\* Variant: the order is rewritten and the layout computed in every mode.
retile_windows_with_order_any_mode(m, ordered_windows) ==
  IF ordered_windows = <<>> THEN m
  ELSE LET m1 == computing_layout(
                   [m EXCEPT !._window_order = new_window_order(@, ordered_windows)])
           positions == calculate_tiling_positions(
               WindowIdsOf(ordered_windows), m1.tiling_layout, m1.screen_size, m1.window_gap)
       IN  IF positions.error # "none"
           THEN retile_fallback(m1, "Retiling with order failed")
           ELSE apply_positions(m1, ordered_windows, positions.positions)

\* _retile_windows_with_order, lines 517-567
retile_windows_with_order(m, ordered_windows) ==
  IF m.tiling_layout = FLOATING THEN m
  ELSE IF ordered_windows = <<>> THEN m
  ELSE LET m1 == computing_layout(
                   [m EXCEPT !._window_order = new_window_order(@, ordered_windows)])
           positions == calculate_tiling_positions(
               WindowIdsOf(ordered_windows), m1.tiling_layout, m1.screen_size, m1.window_gap)
       IN  IF positions.error # "none"
           THEN retile_fallback(m1, "Retiling with order failed")
           ELSE apply_positions(m1, ordered_windows, positions.positions)

(***************************************************************************)
(* Reactive attributes (lines 57-61) and their watchers (lines 569-608).  *)
(* Assigning a reactive runs its watcher when the value changes.           *)
(***************************************************************************)
\* _handle_state_conflicts_before_tiling, lines 600-608
handle_state_conflicts_before_tiling(m) ==
  LET maximized == {o \in Range(DictValues(m._windows)) : m.win[o].maximize_state}
  IN  [m EXCEPT !.win = [o \in Objs |->
                           IF o \in maximized
                           THEN [m.win[o] EXCEPT !.maximize_state = FALSE]
                           ELSE m.win[o]],
                !.restored = @ \cup maximized]

\* Variant: the windows are retiled first and restored afterwards.
watch_tiling_layout_retile_first(m, value) ==
  IF value # FLOATING
  THEN LET m1 == IF m._windows # <<>> THEN retile_all_windows(m) ELSE m
       IN  handle_state_conflicts_before_tiling(m1)
  ELSE m

\* watch_tiling_layout, lines 569-584
watch_tiling_layout(m, value) ==
  IF value # FLOATING
  THEN LET m1 == handle_state_conflicts_before_tiling(m)
       IN  IF m1._windows # <<>> THEN retile_all_windows(m1) ELSE m1
  ELSE m

\* self.tiling_layout = value
assign_tiling_layout(m, value) ==
  IF m.tiling_layout = value THEN m
  ELSE watch_tiling_layout([m EXCEPT !.tiling_layout = value], value)

\* watch_window_gap, lines 586-598
watch_window_gap(m, value) ==
  IF m.tiling_layout # FLOATING /\ m._windows # <<>> THEN retile_all_windows(m) ELSE m

\* self.window_gap = value
assign_window_gap(m, value) ==
  IF m.window_gap = value THEN m
  ELSE watch_window_gap([m EXCEPT !.window_gap = value], value)

(***************************************************************************)
(* Registry and focus (lines 208-309).                                     *)
(***************************************************************************)
\* signal_window_state, lines 208-219
signal_window_state(m, window, state) ==
  LET m1 == IF m._windowbar
            THEN [m EXCEPT !.bar = <<"update_window_button_state", window, state>>]
            ELSE m
  IN  IF m1.tiling_layout # FLOATING THEN retile_all_windows(m1) ELSE m1

\* Variant: the button is added and the windows are left where they are.
window_ready_no_retile(m, window) ==
  IF m._windowbar
  THEN [m EXCEPT !.bar = <<"add_window_button", window>>, !.returned = [kind |-> "True"]]
  ELSE m

\* window_ready, lines 225-238
window_ready(m, window) ==
  LET m1 == IF m._windowbar
            THEN [m EXCEPT !.bar = <<"add_window_button", window>>,
                           !.returned = [kind |-> "True"]]
            ELSE m
  IN  IF m1.tiling_layout # FLOATING THEN retile_all_windows(m1) ELSE m1

\* Variant: the window joins the focus list before its id is looked at.
register_window_focus_first(m, window) ==
  IF IdOf(window) # NoId
  THEN [m EXCEPT !._windows = DictSet(@, IdOf(window), window),
                 !._window_order = IF IdOf(window) \notin Range(@)
                                   THEN Append(@, IdOf(window)) ELSE @,
                 !._recent_focus_order = Append(@, window)]
  ELSE Raise([m EXCEPT !._recent_focus_order = Append(@, window)], "MissingIdentifier")

\* Variant: a newly registered window counts as the most recently focused.
register_window_at_front(m, window) ==
  IF IdOf(window) # NoId
  THEN [m EXCEPT !._windows = DictSet(@, IdOf(window), window),
                 !._window_order = IF IdOf(window) \notin Range(@)
                                   THEN Append(@, IdOf(window)) ELSE @,
                 !._recent_focus_order = <<window>> \o @]
  ELSE Raise(m, "MissingIdentifier")

\* register_window, lines 240-256
register_window(m, window) ==
  IF IdOf(window) # NoId
  THEN [m EXCEPT !._windows = DictSet(@, IdOf(window), window),
                 !._window_order = IF IdOf(window) \notin Range(@)
                                   THEN Append(@, IdOf(window)) ELSE @,
                 !._recent_focus_order = Append(@, window)]
  ELSE Raise(m, "MissingIdentifier")

\* Variant: the window bar is told to drop the button before the id is looked up.
unregister_window_notify_first(m, window) ==
  LET m0 == IF m._windowbar
            THEN [m EXCEPT !.bar = <<"remove_window_button", window>>]
            ELSE m
  IN  IF IdOf(window) \in DictKeys(m._windows)
      THEN LET m1 == [m0 EXCEPT !._windows = DictPop(@, IdOf(window)),
                                !._window_order = IF IdOf(window) \in Range(@)
                                                  THEN ListRemove(@, IdOf(window)) ELSE @]
               m2 == IF window \in Range(m1._recent_focus_order)
                     THEN [m1 EXCEPT !._recent_focus_order = ListRemove(@, window)]
                     ELSE m1
           IN  IF m2.tiling_layout # FLOATING THEN retile_all_windows(m2) ELSE m2
      ELSE Raise(m0, "NotRegistered")

\* unregister_window, lines 258-292
unregister_window(m, window) ==
  IF IdOf(window) \in DictKeys(m._windows)
  THEN LET m1 == [m EXCEPT !._windows = DictPop(@, IdOf(window)),
                           !._window_order = IF IdOf(window) \in Range(@)
                                             THEN ListRemove(@, IdOf(window)) ELSE @]
           m2 == IF window \in Range(m1._recent_focus_order)
                 THEN [m1 EXCEPT !._recent_focus_order = ListRemove(@, window)]
                 ELSE m1
           m3 == IF m2._windowbar
                 THEN [m2 EXCEPT !.bar = <<"remove_window_button", window>>]
                 ELSE m2
           m4 == IF m3._closing_in_progress
                 THEN LET checked == IF window_mode(window) = "temporary"
                                     THEN m3._checked_in_closing_windows + 1
                                     ELSE m3._checked_in_closing_windows
                      IN  IF checked = m3._num_of_temporary_windows
                          THEN [m3 EXCEPT !._checked_in_closing_windows = 0,
                                          !._num_of_temporary_windows = 0,
                                          !.after_refresh = @ + 1]
                          ELSE [m3 EXCEPT !._checked_in_closing_windows = checked]
                 ELSE m3
       IN  IF m4.tiling_layout # FLOATING THEN retile_all_windows(m4) ELSE m4
  ELSE Raise(m, "NotRegistered")

\* Variant: the window goes to the front without leaving its old place.
change_window_focus_order_no_remove(m, window) ==
  IF m._recent_focus_order # <<>>
  THEN [m EXCEPT !._recent_focus_order = <<window>> \o @,
                 !._last_focused_window = window]
  ELSE IF ~m._closing_in_progress
       THEN Raise(m, "EmptyFocusOrder")
       ELSE [m EXCEPT !._last_focused_window = window]

\* change_window_focus_order, lines 294-309
change_window_focus_order(m, window) ==
  IF m._recent_focus_order # <<>>
  THEN LET removed == IF window \in Range(m._recent_focus_order)
                      THEN ListRemove(m._recent_focus_order, window)
                      ELSE m._recent_focus_order
       IN  [m EXCEPT !._recent_focus_order = <<window>> \o removed,
                     !._last_focused_window = window]
  ELSE IF ~m._closing_in_progress
       THEN Raise(m, "EmptyFocusOrder")
       ELSE [m EXCEPT !._last_focused_window = window]

(***************************************************************************)
(* Tiling mode, movement and gap API (lines 614-850).                      *)
(***************************************************************************)
\* set_tiling_layout, lines 614-620
set_tiling_layout(m, layout) == assign_tiling_layout(m, layout)

\* move_focused_window_prev, lines 674-702
move_focused_window_prev(m) ==
  IF m._last_focused_window = None \/ m.tiling_layout = FLOATING THEN m
  ELSE LET open_windows == open_windows_in_order(m)
       IN  IF Len(open_windows) <= 1 THEN m
           ELSE IF m._last_focused_window \notin Range(open_windows) THEN m
           ELSE LET current_index == ListIndex(open_windows, m._last_focused_window)
                    popped == ListRemove(open_windows, m._last_focused_window)
                    new_index == (current_index - 1) % Len(popped)
                IN  retile_windows_with_order(
                      m, ListInsert(popped, new_index, m._last_focused_window))

\* move_focused_window_next, lines 704-732
move_focused_window_next(m) ==
  IF m._last_focused_window = None \/ m.tiling_layout = FLOATING THEN m
  ELSE LET open_windows == open_windows_in_order(m)
       IN  IF Len(open_windows) <= 1 THEN m
           ELSE IF m._last_focused_window \notin Range(open_windows) THEN m
           ELSE LET current_index == ListIndex(open_windows, m._last_focused_window)
                    popped == ListRemove(open_windows, m._last_focused_window)
                    new_index == current_index % Len(popped)
                IN  retile_windows_with_order(
                      m, ListInsert(popped, new_index, m._last_focused_window))

\* Variant: the last window comes first.
rotate_window_order_left_backwards(m) ==
  IF m.tiling_layout = FLOATING THEN m
  ELSE LET open_windows == open_windows_in_order(m)
       IN  IF Len(open_windows) <= 1 THEN m
           ELSE retile_windows_with_order(
                  m, <<open_windows[Len(open_windows)]>>
                       \o SubSeq(open_windows, 1, Len(open_windows) - 1))

\* rotate_window_order_left, lines 734-752
rotate_window_order_left(m) ==
  IF m.tiling_layout = FLOATING THEN m
  ELSE LET open_windows == open_windows_in_order(m)
       IN  IF Len(open_windows) <= 1 THEN m
           ELSE retile_windows_with_order(m, Tail(open_windows) \o <<Head(open_windows)>>)

\* Variant: the last window and the first change places.
rotate_window_order_right_swapping(m) ==
  IF m.tiling_layout = FLOATING THEN m
  ELSE LET open_windows == open_windows_in_order(m)
       IN  IF Len(open_windows) <= 1 THEN m
           ELSE retile_windows_with_order(
                  m, [i \in DOMAIN open_windows |->
                        IF i = 1 THEN open_windows[Len(open_windows)]
                        ELSE IF i = Len(open_windows) THEN open_windows[1]
                        ELSE open_windows[i]])

\* Variant: a single open window is handed to the retile as well.
rotate_window_order_right_unguarded(m) ==
  IF m.tiling_layout = FLOATING THEN m
  ELSE LET open_windows == open_windows_in_order(m)
       IN  IF open_windows = <<>> THEN m
           ELSE retile_windows_with_order(
                  m, <<open_windows[Len(open_windows)]>>
                       \o SubSeq(open_windows, 1, Len(open_windows) - 1))

\* rotate_window_order_right, lines 754-772
rotate_window_order_right(m) ==
  IF m.tiling_layout = FLOATING THEN m
  ELSE LET open_windows == open_windows_in_order(m)
       IN  IF Len(open_windows) <= 1 THEN m
           ELSE retile_windows_with_order(
                  m, <<open_windows[Len(open_windows)]>>
                       \o SubSeq(open_windows, 1, Len(open_windows) - 1))

(***************************************************************************)
(* The buttons of a window's title bar                                    *)
(* (windowcomponents.py lines 310-343, 371-401, 471-491, 520-540).         *)
(***************************************************************************)
\* l[i], l[j] = l[j], l[i] for Python indices i and j
ListSwap(l, i, j) ==
  [k \in DOMAIN l |-> IF k = i + 1 THEN l[j + 1] ELSE IF k = j + 1 THEN l[i + 1] ELSE l[k]]

\* MovePrevButton._move_window_prev of the button of window, lines 310-343
_move_window_prev(m, window) ==
  IF m.tiling_layout = FLOATING THEN m
  ELSE LET open_windows == open_windows_in_order(m)
       IN  IF Len(open_windows) <= 1 THEN m
           ELSE IF window \notin Range(open_windows) THEN m
           ELSE LET current_index == ListIndex(open_windows, window)
                    popped == ListRemove(open_windows, window)
                    new_index == IF current_index - 1 < 0 THEN Len(popped)
                                 ELSE current_index - 1
                IN  retile_windows_with_order(m, ListInsert(popped, new_index, window))

\* MoveNextButton._move_window_next of the button of window, lines 371-401
_move_window_next(m, window) ==
  IF m.tiling_layout = FLOATING THEN m
  ELSE LET open_windows == open_windows_in_order(m)
       IN  IF Len(open_windows) <= 1 THEN m
           ELSE IF window \notin Range(open_windows) THEN m
           ELSE LET current_index == ListIndex(open_windows, window)
                    total_windows == Len(open_windows)
                    new_index == (current_index + 1) % total_windows
                IN  retile_windows_with_order(
                      m, ListSwap(open_windows, current_index, new_index))

\* RotateLeftButton._rotate_list_left, lines 471-491
_rotate_list_left(m) ==
  IF m.tiling_layout = FLOATING THEN m
  ELSE LET open_windows == open_windows_in_order(m)
       IN  IF Len(open_windows) <= 1 THEN m
           ELSE retile_windows_with_order(m, Tail(open_windows) \o <<Head(open_windows)>>)

\* RotateRightButton._rotate_list_right, lines 520-540
_rotate_list_right(m) ==
  IF m.tiling_layout = FLOATING THEN m
  ELSE LET open_windows == open_windows_in_order(m)
       IN  IF Len(open_windows) <= 1 THEN m
           ELSE retile_windows_with_order(
                  m, <<open_windows[Len(open_windows)]>>
                       \o SubSeq(open_windows, 1, Len(open_windows) - 1))

\* Variant: the gap is not checked for its sign.
set_window_gap_unchecked(m, gap) ==
  LET open_windows == open_windows_in_dict_order(m)
      too_large ==
        /\ m.tiling_layout # FLOATING
        /\ m._windows # <<>>
        /\ open_windows # <<>>
        /\ calculate_tiling_positions(WindowIdsOf(open_windows), m.tiling_layout,
                                      m.screen_size, gap).error # "none"
  IN  IF too_large THEN Raise(m, "GapTooLarge") ELSE assign_window_gap(m, gap)

\* set_window_gap, lines 816-842
set_window_gap(m, gap) ==
  IF gap < 0 THEN Raise(m, "InvalidGap")
  ELSE LET open_windows == open_windows_in_dict_order(m)
           too_large ==
             /\ m.tiling_layout # FLOATING
             /\ m._windows # <<>>
             /\ open_windows # <<>>
             /\ calculate_tiling_positions(WindowIdsOf(open_windows), m.tiling_layout,
                                           m.screen_size, gap).error # "none"
       IN  IF too_large THEN Raise(m, "GapTooLarge") ELSE assign_window_gap(m, gap)

\* adjust_window_gap, lines 778-789: "except ValueError: pass"
adjust_window_gap(m, delta) ==
  LET new_gap == IF m.window_gap + delta > 0 THEN m.window_gap + delta ELSE 0
      attempt == set_window_gap(m, new_gap)
  IN  IF attempt.raised \in {"InvalidGap", "GapTooLarge"}
      THEN [attempt EXCEPT !.raised = "none"]
      ELSE attempt

(***************************************************************************)
(* Tiling queries (lines 387-466).                                         *)
(***************************************************************************)
\* lines 415-419 / 456-460: "except ValueError": log a warning, fall back to
\* floating mode, raise ValueError("Tiling calculation failed: ...")
query_fallback(m) ==
  Raise([m EXCEPT !.warned = "Tiling calculation failed, falling back to floating mode",
                  !.tiling_layout = FLOATING],
        "TilingCalculationFailed")

\* get_tiling_position, lines 387-427
get_tiling_position(m, window) ==
  IF m.tiling_layout = FLOATING THEN Raise(m, "NotTiling")
  ELSE LET open_windows == open_windows_in_dict_order(m)
       IN  IF open_windows = <<>>
           THEN [m EXCEPT !.returned = [kind |-> "Offset", x |-> 0, y |-> 0]]
           ELSE LET positions == calculate_tiling_positions(
                       WindowIdsOf(open_windows), m.tiling_layout, m.screen_size, m.window_gap)
                IN  IF positions.error # "none" THEN query_fallback(m)
                    ELSE IF IdOf(window) \notin DOMAIN positions.positions
                    THEN Raise(m, "WindowNotFound")
                    ELSE LET position == positions.positions[IdOf(window)]
                         IN  [m EXCEPT !.returned =
                                [kind |-> "Offset",
                                 x |-> position.x + m.container_offset.x,
                                 y |-> position.y + m.container_offset.y]]

\* Variant: the size is written to the window as well as returned.
get_tiling_size_applying(m, window) ==
  IF m.tiling_layout = FLOATING THEN Raise(m, "NotTiling")
  ELSE LET open_windows == open_windows_in_dict_order(m)
       IN  IF open_windows = <<>>
           THEN [m EXCEPT !.returned = [kind |-> "Size", width |-> 0, height |-> 0]]
           ELSE LET positions == calculate_tiling_positions(
                       WindowIdsOf(open_windows), m.tiling_layout, m.screen_size, m.window_gap)
                IN  IF positions.error # "none" THEN query_fallback(m)
                    ELSE IF IdOf(window) \notin DOMAIN positions.positions
                    THEN Raise(m, "WindowNotFound")
                    ELSE LET position == positions.positions[IdOf(window)]
                         IN  [m EXCEPT !.win[window].width = position.width,
                                       !.win[window].height = position.height,
                                       !.returned =
                                         [kind |-> "Size", width |-> position.width,
                                          height |-> position.height]]

\* get_tiling_layout, lines 791-797
get_tiling_layout(m) == [m EXCEPT !.returned = [kind |-> "TilingLayout", value |-> m.tiling_layout]]

\* get_window_gap, lines 844-850
get_window_gap(m) == [m EXCEPT !.returned = [kind |-> "int", value |-> m.window_gap]]

\* get_tiling_size, lines 429-466
get_tiling_size(m, window) ==
  IF m.tiling_layout = FLOATING THEN Raise(m, "NotTiling")
  ELSE LET open_windows == open_windows_in_dict_order(m)
       IN  IF open_windows = <<>>
           THEN [m EXCEPT !.returned = [kind |-> "Size", width |-> 0, height |-> 0]]
           ELSE LET positions == calculate_tiling_positions(
                       WindowIdsOf(open_windows), m.tiling_layout, m.screen_size, m.window_gap)
                IN  IF positions.error # "none" THEN query_fallback(m)
                    ELSE IF IdOf(window) \notin DOMAIN positions.positions
                    THEN Raise(m, "WindowNotFound")
                    ELSE LET position == positions.positions[IdOf(window)]
                         IN  [m EXCEPT !.returned =
                                [kind |-> "Size", width |-> position.width,
                                 height |-> position.height]]

(***************************************************************************)
(* Focus navigation (lines 626-668).                                       *)
(***************************************************************************)
\* Window.focus(): the window is asked to take the focus; its _on_focus
\* handler calls change_window_focus_order later, as a step of its own
focus(m, window) == [m EXCEPT !.focused = window]

\* Variant: the candidate takes the focus whether it is open or not.
focus_next_window_any_state(m) ==
  IF m._recent_focus_order = <<>> THEN m
  ELSE LET current == m._last_focused_window
       IN  IF current = None THEN focus(m, m._recent_focus_order[1])
           ELSE IF current \notin Range(m._recent_focus_order)
           THEN focus(m, m._recent_focus_order[1])
           ELSE LET current_index == ListIndex(m._recent_focus_order, current)
                    next_index == (current_index + 1) % Len(m._recent_focus_order)
                IN  focus(m, m._recent_focus_order[next_index + 1])

\* focus_next_window, lines 626-646
focus_next_window(m) ==
  IF m._recent_focus_order = <<>> THEN m
  ELSE LET current == m._last_focused_window
       IN  IF current = None THEN focus(m, m._recent_focus_order[1])
           ELSE IF current \notin Range(m._recent_focus_order)
           THEN focus(m, m._recent_focus_order[1])
           ELSE LET current_index == ListIndex(m._recent_focus_order, current)
                    next_index == (current_index + 1) % Len(m._recent_focus_order)
                    next_window == m._recent_focus_order[next_index + 1]
                IN  IF m.win[next_window].open_state THEN focus(m, next_window) ELSE m

\* focus_previous_window, lines 648-668
focus_previous_window(m) ==
  IF m._recent_focus_order = <<>> THEN m
  ELSE LET current == m._last_focused_window
           last == m._recent_focus_order[Len(m._recent_focus_order)]
       IN  IF current = None THEN focus(m, last)
           ELSE IF current \notin Range(m._recent_focus_order) THEN focus(m, last)
           ELSE LET current_index == ListIndex(m._recent_focus_order, current)
                    prev_index == (current_index - 1) % Len(m._recent_focus_order)
                    prev_window == m._recent_focus_order[prev_index + 1]
                IN  IF m.win[prev_window].open_state THEN focus(m, prev_window) ELSE m

(***************************************************************************)
(* Window bar and bulk actions (lines 175-206, 331-363).                   *)
(***************************************************************************)
\* register_windowbar, lines 175-192
register_windowbar(m) ==
  IF ~m._windowbar THEN [m EXCEPT !._windowbar = TRUE]
  ELSE Raise(m, "DuplicateWindowBar")

\* unregister_windowbar, lines 194-206
unregister_windowbar(m) ==
  IF m._windowbar THEN [m EXCEPT !._windowbar = FALSE]
  ELSE Raise(m, "NoWindowBarRegistered")

\* Window.remove_window: the window closes and then removes itself; its
\* unregister_window call arrives later, as a step of its own
remove_window(m, window) == m

\* the loop of close_all_windows, lines 353-357, from the i-th window on
RECURSIVE close_each(_, _, _)
close_each(m, windows_copy, i) ==
  IF i > Len(windows_copy) THEN m
  ELSE LET window == windows_copy[i]
           m1 == IF window_mode(window) = "temporary"
                 THEN remove_window(m, window)
                 ELSE [m EXCEPT !.win[window].open_state = FALSE]
       IN  close_each(m1, windows_copy, i + 1)

\* close_all_windows, lines 337-357
close_all_windows(m) ==
  LET temporary == SelectSeq(DictValues(m._windows),
                             LAMBDA w : window_mode(w) = "temporary")
      m1 == [m EXCEPT !._num_of_temporary_windows = Len(temporary),
                      !._closing_in_progress = TRUE]
  IN  close_each(m1, DictValues(m._windows), 1)

\* line 288: the callback handed to call_after_refresh,
\* lambda: setattr(self, "closing_in_progress", False)
closing_finished(m) ==
  [m EXCEPT !.after_refresh = @ - 1, !.closing_in_progress = "False"]

(***************************************************************************)
(* Spec: the manager's operations, one action per public or private entry *)
(* point, each with its inputs drawn from small sets.                      *)
(***************************************************************************)
\* the Window objects the registry holds
RegisteredWindows == Range(DictValues(_windows))

\* a Window that has registered and has not yet unregistered
Live(o) == o \in RegisteredWindows \/ o \in Range(_recent_focus_order)

CanRun == ops < MaxOps

\* every ordering of the windows of S: what the callers of
\* _retile_windows_with_order pass is an ordering of the open windows
OrderingsOf(S) == {q \in DistinctSeqs(S, Cardinality(S)) : Len(q) = Cardinality(S)}

\* Window.__init__ registers the window (called once per mounted window)
RegisterWindow ==
  \E o \in Objs :
    /\ CanRun /\ ~Live(o)
    /\ Install(register_window(BeginWith("register_window", o), o))

\* Window._execute_remove unregisters the window
UnregisterWindow ==
  \E o \in Objs :
    /\ CanRun
    /\ Install(unregister_window(BeginWith("unregister_window", o), o))

\* Window._dom_ready of a registered window
WindowReady ==
  \E o \in RegisteredWindows :
    /\ CanRun
    /\ Install(window_ready(BeginWith("window_ready", o), o))

\* Window._on_focus
ChangeWindowFocusOrder ==
  \E o \in Objs :
    /\ CanRun
    /\ Install(change_window_focus_order(BeginWith("change_window_focus_order", o), o))

\* a live window opens or closes (Window.open_state changes) and signals it
SignalWindowState ==
  \E o \in Objs :
    /\ CanRun /\ Live(o)
    /\ LET state == ~win[o].open_state
           m == [BeginWith("signal_window_state", o) EXCEPT !.win[o].open_state = state]
       IN  Install(signal_window_state(m, o, state))

SetTilingLayout ==
  \E layout \in TilingLayout :
    /\ CanRun
    /\ Install(set_tiling_layout(BeginWith("set_tiling_layout", layout), layout))

SetWindowGap ==
  \E gap \in (-1)..MaxGap :
    /\ CanRun
    /\ Install(set_window_gap(BeginWith("set_window_gap", gap), gap))

RetileAllWindows ==
  /\ CanRun
  /\ Install(retile_all_windows(Begin("retile_all_windows")))

RetileWindowsWithOrder ==
  \E ordered_windows \in OrderingsOf(Range(open_windows_in_order(Mgr))) :
    /\ CanRun
    /\ Install(retile_windows_with_order(
         BeginWith("retile_windows_with_order", ordered_windows), ordered_windows))

MoveFocusedWindowPrev ==
  /\ CanRun
  /\ Install(move_focused_window_prev(Begin("move_focused_window_prev")))

MoveFocusedWindowNext ==
  /\ CanRun
  /\ Install(move_focused_window_next(Begin("move_focused_window_next")))

RotateWindowOrderLeft ==
  /\ CanRun
  /\ Install(rotate_window_order_left(Begin("rotate_window_order_left")))

RotateWindowOrderRight ==
  /\ CanRun
  /\ Install(rotate_window_order_right(Begin("rotate_window_order_right")))

\* the deltas the gap is adjusted by
GapDeltas == {-1, 1}

AdjustWindowGap ==
  \E delta \in GapDeltas :
    /\ CanRun
    /\ Install(adjust_window_gap(BeginWith("adjust_window_gap", delta), delta))

\* WindowBar mounts
RegisterWindowbar ==
  /\ CanRun
  /\ Install(register_windowbar(Begin("register_windowbar")))

\* WindowBar unmounts
UnregisterWindowbar ==
  /\ CanRun
  /\ Install(unregister_windowbar(Begin("unregister_windowbar")))

CloseAllWindows ==
  /\ CanRun
  /\ Install(close_all_windows(Begin("close_all_windows")))

\* the manager after the application has mounted its first k windows: each
\* Window registers itself when it is constructed
RECURSIVE Mounted(_, _)
Mounted(m, k) == IF k = 0 THEN m ELSE register_window(Mounted(m, k - 1), k)

\* how many windows the application mounts before the run starts; windows
\* 1 .. NumObjs - 2 are the ones that carry ids of their own
InitialWindowCounts == {k \in 0..3 : k <= NumObjs - 2}

Init ==
  /\ \E screen \in ScreenSizes, offset \in ContainerOffsets, k \in InitialWindowCounts :
       StateIs(Mounted(Constructed(screen, offset), k))
  /\ NoCall

Next ==
  \/ RegisterWindow
  \/ WindowReady
  \/ UnregisterWindow
  \/ ChangeWindowFocusOrder
  \/ SignalWindowState
  \/ SetTilingLayout
  \/ SetWindowGap
  \/ RetileAllWindows
  \/ RetileWindowsWithOrder
  \/ MoveFocusedWindowPrev
  \/ MoveFocusedWindowNext
  \/ RotateWindowOrderLeft
  \/ RotateWindowOrderRight
  \/ AdjustWindowGap
  \/ RegisterWindowbar
  \/ UnregisterWindowbar
  \/ CloseAllWindows

Spec == Init /\ [][Next]_vars

(***************************************************************************)
(* LifecycleSpec: the registry and focus calls as the windows themselves  *)
(* make them.  Every window has an id of its own, registers once when it  *)
(* is constructed, and only a registered window takes the focus or is     *)
(* removed.                                                                *)
(***************************************************************************)
\* Window.__init__ of a window whose id no registered window has
MountWindow ==
  \E o \in Objs :
    /\ CanRun /\ ~Live(o)
    /\ IdOf(o) # NoId /\ IdOf(o) \notin DictKeys(_windows)
    /\ Install(register_window(BeginWith("register_window", o), o))

\* Window._execute_remove of a registered window
RemoveWindow ==
  \E o \in RegisteredWindows :
    /\ CanRun
    /\ Install(unregister_window(BeginWith("unregister_window", o), o))

\* Window._on_focus of a registered window
FocusWindow ==
  \E o \in RegisteredWindows :
    /\ CanRun
    /\ Install(change_window_focus_order(BeginWith("change_window_focus_order", o), o))

LifecycleNext ==
  \/ MountWindow
  \/ RemoveWindow
  \/ FocusWindow

LifecycleSpec == Init /\ [][LifecycleNext]_vars

(***************************************************************************)
(* ModeSpec: layout-mode changes while windows are maximized, restored,   *)
(* opened and closed.                                                      *)
(***************************************************************************)
\* a registered window is maximized, or restored, by its own button
ToggleMaximize ==
  \E o \in RegisteredWindows :
    /\ CanRun
    /\ Install([BeginWith("toggle_maximize", o) EXCEPT !.win[o].maximize_state = ~@])

ModeNext ==
  \/ ToggleMaximize
  \/ SetTilingLayout
  \/ SignalWindowState

ModeSpec == Init /\ [][ModeNext]_vars

(***************************************************************************)
(* CloseSpec: close-all, the removals it starts and the callback that     *)
(* ends it, while windows mount and take the focus.                        *)
(***************************************************************************)
\* the screen refreshes and runs a callback handed to call_after_refresh
RunAfterRefresh ==
  /\ CanRun /\ after_refresh > 0
  /\ Install(closing_finished(Begin("closing_finished")))

CloseNext ==
  \/ CloseAllWindows
  \/ RemoveWindow
  \/ RunAfterRefresh
  \/ MountWindow
  \/ FocusWindow

CloseSpec == Init /\ [][CloseNext]_vars

(***************************************************************************)
(* The buttons: a press is the on_mouse_up that follows an on_mouse_down   *)
(* on the same button (click_started_on is set).                           *)
(***************************************************************************)
PressMovePrevButton ==
  \E o \in RegisteredWindows :
    /\ CanRun
    /\ Install(_move_window_prev(BeginWith("MovePrevButton", o), o))

PressMoveNextButton ==
  \E o \in RegisteredWindows :
    /\ CanRun
    /\ Install(_move_window_next(BeginWith("MoveNextButton", o), o))

PressRotateLeftButton ==
  /\ CanRun
  /\ Install(_rotate_list_left(Begin("RotateLeftButton")))

PressRotateRightButton ==
  /\ CanRun
  /\ Install(_rotate_list_right(Begin("RotateRightButton")))

ButtonNext ==
  \/ PressMovePrevButton
  \/ PressMoveNextButton
  \/ PressRotateLeftButton
  \/ PressRotateRightButton
  \/ MoveFocusedWindowPrev
  \/ MoveFocusedWindowNext
  \/ RotateWindowOrderLeft
  \/ RotateWindowOrderRight
  \/ FocusWindow
  \/ SignalWindowState
  \/ SetTilingLayout

ButtonSpec == Init /\ [][ButtonNext]_vars

(***************************************************************************)
(* The TitleBar and the Resizer of the window Dragged                      *)
(* (windowcomponents.py lines 570-724). Every handler runs to its end      *)
(* before the next one starts; a callback handed to call_after_refresh     *)
(* runs as a handler of its own, some time later.                          *)
(***************************************************************************)
MaxEvents == 7     \* mouse events, callbacks and layout changes in one run

Deltas == {Offset(1, 0), Offset(0, 1)}                  \* event.delta
MousePositions == {Offset(25, 15), Offset(27, 14)}      \* event.screen_offset
Buttons == {1, 2}                                       \* event.button

Plus(a, b) == Offset(a.x + b.x, a.y + b.y)
Minus(a, b) == Offset(a.x - b.x, a.y - b.y)

\* textual.geometry.clamp
clamp(value, minimum, maximum) ==
  LET lo == IF minimum > maximum THEN maximum ELSE minimum
      hi == IF minimum > maximum THEN minimum ELSE maximum
  IN  IF value < lo THEN lo ELSE IF value > hi THEN hi ELSE value

\* window.min_width and window.min_height; no max_width or max_height is set,
\* so that the parent's size is the maximum (set_max_min, lines 581-593)
min_width == 12
min_height == 6

\* window.clamp_into_parent_area(): the offset is brought back into the parent
clamp_into_parent_area(m, o) ==
  [m EXCEPT !.win[o].x = clamp(@, 0, m.screen_size.width - m.win[o].width),
            !.win[o].y = clamp(@, 0, m.screen_size.height - m.win[o].height)]

\* Widget.capture_mouse() and Widget.release_mouse()
capture_mouse(m, widget) == [m EXCEPT !.mouse_captured = widget]
release_mouse(m, widget) ==
  IF m.mouse_captured = widget THEN [m EXCEPT !.mouse_captured = "none"] ELSE m

\* TitleBar._apply_accumulated_movement, lines 693-707
_apply_accumulated_movement(m) ==
  LET delta == m.titlebar._accumulated_delta
      placed == [m EXCEPT !.win[Dragged].x = @ + delta.x, !.win[Dragged].y = @ + delta.y]
      moved == IF delta # Offset(0, 0)
               THEN IF ~m.win[Dragged].snap_state THEN placed
                    ELSE clamp_into_parent_area(placed, Dragged)
               ELSE m
  IN  [moved EXCEPT !.titlebar._accumulated_delta = Offset(0, 0),
                    !.titlebar.due = FALSE,
                    !.titlebar._update_pending = FALSE]

\* TitleBar.on_mouse_move, lines 675-691, scheduling a callback whether or not
\* one is pending
TitleBar_on_mouse_move_always_schedules(m, delta) ==
  IF m.mouse_captured # "TitleBar" THEN m
  ELSE LET got == [m EXCEPT !.titlebar._accumulated_delta = Plus(@, delta),
                            !.titlebar.received = Plus(@, delta)]
       IN  IF got.titlebar.due /\ ~got.titlebar._update_pending
           THEN _apply_accumulated_movement(got)
           ELSE [got EXCEPT !.titlebar._update_pending = TRUE,
                            !.titlebar.scheduled = @ + 1]

\* TitleBar.on_mouse_move, lines 675-691, keeping only the last delta
TitleBar_on_mouse_move_last_delta(m, delta) ==
  IF m.mouse_captured # "TitleBar" THEN m
  ELSE LET got == [m EXCEPT !.titlebar._accumulated_delta = delta,
                            !.titlebar.received = Plus(@, delta)]
       IN  IF got.titlebar._update_pending THEN got
           ELSE IF got.titlebar.due THEN _apply_accumulated_movement(got)
           ELSE [got EXCEPT !.titlebar._update_pending = TRUE,
                            !.titlebar.scheduled = @ + 1]

\* TitleBar.on_mouse_move, lines 675-691
TitleBar_on_mouse_move(m, delta) ==
  IF m.mouse_captured # "TitleBar" THEN m
  ELSE LET got == [m EXCEPT !.titlebar._accumulated_delta = Plus(@, delta),
                            !.titlebar.received = Plus(@, delta)]
       IN  IF got.titlebar._update_pending THEN got
           ELSE IF got.titlebar.due THEN _apply_accumulated_movement(got)
           ELSE [got EXCEPT !.titlebar._update_pending = TRUE,
                            !.titlebar.scheduled = @ + 1]

\* the callback of line 691, run after a refresh
TitleBar_after_refresh(m) ==
  [_apply_accumulated_movement(m) EXCEPT !.titlebar.scheduled = @ - 1]

\* TitleBar.on_mouse_down, lines 713-718
TitleBar_on_mouse_down(m, button) ==
  IF button = 1
  THEN focus([capture_mouse(m, "TitleBar") EXCEPT
                !.titlebar.offset_on_down = Offset(m.win[Dragged].x, m.win[Dragged].y),
                !.titlebar.carried = m.titlebar._accumulated_delta,
                !.titlebar.received = Offset(0, 0)],
             Dragged)
  ELSE m

\* TitleBar.on_mouse_up, lines 720-723
TitleBar_on_mouse_up(m) == release_mouse(m, "TitleBar")

\* Resizer._apply_resize, lines 617-632
_apply_resize(m) ==
  LET total_delta == Minus(m.resizer._last_mouse_position, m.resizer.position_on_down)
      new_width == m.resizer.size_on_down.width + total_delta.x
      new_height == m.resizer.size_on_down.height + total_delta.y
  IN  [m EXCEPT !.win[Dragged].width = clamp(new_width, min_width, m.screen_size.width),
                !.win[Dragged].height = clamp(new_height, min_height, m.screen_size.height),
                !.resizer.due = FALSE,
                !.resizer._update_pending = FALSE]

\* Resizer.on_mouse_move, lines 595-615
Resizer_on_mouse_move(m, screen_offset) ==
  IF m.tiling_layout # FLOATING THEN m
  ELSE IF m.mouse_captured # "Resizer" THEN m
  ELSE LET got == [m EXCEPT !.resizer._last_mouse_position = screen_offset]
       IN  IF got.resizer._update_pending THEN got
           ELSE IF got.resizer.due THEN _apply_resize(got)
           ELSE [got EXCEPT !.resizer._update_pending = TRUE,
                            !.resizer.scheduled = @ + 1]

\* the callback of line 615, run after a refresh
Resizer_after_refresh(m) ==
  [_apply_resize(m) EXCEPT !.resizer.scheduled = @ - 1]

\* Resizer.on_mouse_down, lines 644-656
Resizer_on_mouse_down(m, button, screen_offset) ==
  IF m.tiling_layout # FLOATING THEN m
  ELSE IF button = 1
  THEN focus([capture_mouse(m, "Resizer") EXCEPT
                !.resizer.position_on_down = screen_offset,
                !.resizer.size_on_down = [width |-> m.win[Dragged].width,
                                          height |-> m.win[Dragged].height]],
             Dragged)
  ELSE m

\* Resizer.on_mouse_up, lines 658-662
Resizer_on_mouse_up(m) == clamp_into_parent_area(release_mouse(m, "Resizer"), Dragged)

\* 16.7 ms and more have gone by since either element last applied an update
time_passes(m) == [m EXCEPT !.titlebar.due = TRUE, !.resizer.due = TRUE]

CanHandle == ops < MaxEvents

\* the application sends a mouse event to the widget that has captured the
\* mouse, and to the widget under the pointer when none has
Reaches(widget) == mouse_captured \in {"none", widget}

\* the left button goes down only while it is up: no widget holds the mouse
CanPress(button) == button = 1 => mouse_captured = "none"

TitleBarMouseDown ==
  \E button \in Buttons :
    /\ CanHandle /\ Reaches("TitleBar") /\ CanPress(button)
    /\ Install(TitleBar_on_mouse_down(BeginWith("TitleBar.on_mouse_down", button), button))

TitleBarMouseMove ==
  \E delta \in Deltas :
    /\ CanHandle /\ Reaches("TitleBar")
    /\ Install(TitleBar_on_mouse_move(BeginWith("TitleBar.on_mouse_move", delta), delta))

TitleBarMouseUp ==
  /\ CanHandle /\ Reaches("TitleBar")
  /\ Install(TitleBar_on_mouse_up(Begin("TitleBar.on_mouse_up")))

TitleBarAfterRefresh ==
  /\ CanHandle /\ titlebar.scheduled > 0
  /\ Install(TitleBar_after_refresh(Begin("TitleBar._apply_accumulated_movement")))

ResizerMouseDown ==
  \E button \in Buttons, screen_offset \in MousePositions :
    /\ CanHandle /\ Reaches("Resizer") /\ CanPress(button)
    /\ Install(Resizer_on_mouse_down(BeginWith("Resizer.on_mouse_down", screen_offset),
                                     button, screen_offset))

ResizerMouseMove ==
  \E screen_offset \in MousePositions :
    /\ CanHandle /\ Reaches("Resizer")
    /\ Install(Resizer_on_mouse_move(BeginWith("Resizer.on_mouse_move", screen_offset),
                                     screen_offset))

ResizerMouseUp ==
  /\ CanHandle /\ Reaches("Resizer")
  /\ Install(Resizer_on_mouse_up(Begin("Resizer.on_mouse_up")))

ResizerAfterRefresh ==
  /\ CanHandle /\ resizer.scheduled > 0
  /\ Install(Resizer_after_refresh(Begin("Resizer._apply_resize")))

TimePasses ==
  /\ CanHandle
  /\ Install(time_passes(Begin("time_passes")))

\* the application changes manager.tiling_layout between two mouse events
ChangeLayoutBetweenEvents ==
  \E layout \in TilingLayout :
    /\ CanHandle
    /\ Install(set_tiling_layout(BeginWith("set_tiling_layout", layout), layout))

\* the window Dragged is mounted, snapped or not
DragInit ==
  /\ \E screen \in ScreenSizes, offset \in ContainerOffsets, snap \in BOOLEAN :
       StateIs([Mounted(Constructed(screen, offset), 1)
                  EXCEPT !.win[Dragged].snap_state = snap])
  /\ NoCall

DragNext ==
  \/ TitleBarMouseDown
  \/ TitleBarMouseMove
  \/ TitleBarMouseUp
  \/ TitleBarAfterRefresh
  \/ ResizerMouseDown
  \/ ResizerMouseMove
  \/ ResizerMouseUp
  \/ ResizerAfterRefresh
  \/ TimePasses
  \/ ChangeLayoutBetweenEvents

DragSpec == DragInit /\ [][DragNext]_vars

\* the TitleBar alone: nothing but its own handlers touches the window
TitleBarNext ==
  \/ TitleBarMouseDown
  \/ TitleBarMouseMove
  \/ TitleBarMouseUp
  \/ TitleBarAfterRefresh
  \/ TimePasses

TitleBarSpec == DragInit /\ [][TitleBarNext]_vars

(***************************************************************************)
(* OrderSpec: _retile_windows_with_order called with any list of          *)
(* registered windows, open or closed, all of them or some.                *)
(***************************************************************************)
\* every non-empty list of distinct windows of S
ListsOf(S) == DistinctSeqs(S, Cardinality(S)) \ {<<>>}

RetileSomeWindowsWithOrder ==
  \E ordered_windows \in ListsOf(RegisteredWindows) :
    /\ CanRun
    /\ Install(retile_windows_with_order(
         BeginWith("retile_windows_with_order", ordered_windows), ordered_windows))

OrderNext ==
  \/ RetileSomeWindowsWithOrder
  \/ SetTilingLayout
  \/ SignalWindowState
  \/ MountWindow

OrderSpec == Init /\ [][OrderNext]_vars

(***************************************************************************)
(* FocusSpec: focus cycling while windows register, unregister, take the  *)
(* focus, open and close.                                                  *)
(***************************************************************************)
FocusNextWindow ==
  /\ CanRun
  /\ Install(focus_next_window(Begin("focus_next_window")))

FocusPreviousWindow ==
  /\ CanRun
  /\ Install(focus_previous_window(Begin("focus_previous_window")))

FocusNext ==
  \/ RegisterWindow
  \/ UnregisterWindow
  \/ ChangeWindowFocusOrder
  \/ SignalWindowState
  \/ FocusNextWindow
  \/ FocusPreviousWindow

FocusSpec == Init /\ [][FocusNext]_vars

\* Window._on_focus: the window that was given the focus calls
\* change_window_focus_order on itself
_on_focus(m) == IF m.focused = None THEN m ELSE change_window_focus_order(m, m.focused)

\* one call of focus_next_window or focus_previous_window, and the focus
\* handler of the window it focused
cycle(m, direction) ==
  LET start == [m EXCEPT !.focused = None]
  IN  IF direction = "next" THEN _on_focus(focus_next_window(start))
      ELSE _on_focus(focus_previous_window(start))

CycleFocus ==
  \E direction \in {"next", "previous"} :
    /\ CanRun
    /\ Install(cycle(BeginWith("cycle", direction), direction))

CycleNext ==
  \/ RegisterWindow
  \/ FocusWindow
  \/ CycleFocus

CycleSpec == Init /\ [][CycleNext]_vars

(***************************************************************************)
(* QuerySpec: the tiling queries, asked about any window while windows     *)
(* register, open and close and the mode and the gap change.               *)
(***************************************************************************)
GetTilingPosition ==
  \E o \in Objs :
    /\ CanRun
    /\ Install(get_tiling_position(BeginWith("get_tiling_position", o), o))

GetTilingSize ==
  \E o \in Objs :
    /\ CanRun
    /\ Install(get_tiling_size(BeginWith("get_tiling_size", o), o))

QueryNext ==
  \/ GetTilingPosition
  \/ GetTilingSize
  \/ RegisterWindow
  \/ SignalWindowState
  \/ SetTilingLayout
  \/ SetWindowGap

QuerySpec == Init /\ [][QueryNext]_vars

GetTilingLayout ==
  /\ CanRun
  /\ Install(get_tiling_layout(Begin("get_tiling_layout")))

GetWindowGap ==
  /\ CanRun
  /\ Install(get_window_gap(Begin("get_window_gap")))

\* the four queries among the operations that change what they read
ReadNext ==
  \/ GetTilingPosition
  \/ GetTilingSize
  \/ GetTilingLayout
  \/ GetWindowGap
  \/ RegisterWindow
  \/ FocusWindow
  \/ SetTilingLayout
  \/ SetWindowGap

ReadSpec == Init /\ [][ReadNext]_vars

\* the queries among the operations that register, unregister, move and
\* rotate windows
PlacementNext ==
  \/ GetTilingPosition
  \/ GetTilingSize
  \/ RegisterWindow
  \/ UnregisterWindow
  \/ FocusWindow
  \/ MoveFocusedWindowPrev
  \/ MoveFocusedWindowNext
  \/ RotateWindowOrderLeft
  \/ RotateWindowOrderRight
  \/ SetTilingLayout

PlacementSpec == Init /\ [][PlacementNext]_vars

(***************************************************************************)
(* CalcSpec: one call of calculate_tiling_positions on inputs drawn from  *)
(* bounded sets.                                                           *)
(***************************************************************************)
WindowIds == 1..MaxLen

WindowLists == DistinctSeqs(WindowIds, MaxLen)

Layouts == TilingLayout \cup {UNSUPPORTED}

ContainerSizes ==
  {[width |-> 100, height |-> 40], [width |-> 80, height |-> 40],
   [width |-> 100, height |-> 30], [width |-> 47, height |-> 24],
   [width |-> 30, height |-> 13], [width |-> 11, height |-> 40],
   [width |-> 100, height |-> 5], [width |-> 0, height |-> 40],
   [width |-> 100, height |-> -1], [width |-> 100, height |-> 2]}

Gaps == (-1)..MaxGap

CalcInit ==
  /\ arg_windows \in WindowLists
  /\ arg_layout \in Layouts
  /\ arg_container_size \in ContainerSizes
  /\ arg_gap \in Gaps
  /\ result = Pending
  /\ MgrInit
  /\ screen_size = [width |-> 100, height |-> 40]

Calculate ==
  /\ result = Pending
  /\ result' = calculate_tiling_positions(arg_windows, arg_layout, arg_container_size, arg_gap)
  /\ UNCHANGED <<arg_windows, arg_layout, arg_container_size, arg_gap, mgr_vars>>

CalcNext == Calculate

CalcSpec == CalcInit /\ [][CalcNext]_vars

(***************************************************************************)
(* Properties of calculate_tiling_positions, checked under CalcSpec.       *)
(***************************************************************************)
Done == result # Pending
Succeeded == Done /\ result.error = "none"
Failed == Done /\ result.error # "none"
TilingCall == arg_windows # <<>> /\ arg_layout # FLOATING
CalledWith(n, layout, w, h, gap) ==
  /\ Done
  /\ Len(arg_windows) = n
  /\ arg_layout = layout
  /\ arg_container_size = [width |-> w, height |-> h]
  /\ arg_gap = gap
\* the geometry the result gives to the window at list position n (1-based)
GeomAt(n) == result.positions[arg_windows[n]]
ArgW == arg_container_size.width
ArgH == arg_container_size.height
ArgVGap == arg_gap
ArgHGap == 2 * arg_gap
ArgN == Len(arg_windows)

\* C1: whenever calculate succeeds for a non-empty list and a mode other than
\* Floating, every window of the result has width >= 12 and height >= 6.
C1_MinimumSizes ==
  (Succeeded /\ TilingCall) =>
    \A k \in DOMAIN result.positions :
      result.positions[k].width >= 12 /\ result.positions[k].height >= 6
C1_Witness == CalledWith(1, MASTER_DETAIL, 11, 40, 0) /\ Succeeded

DistinctIds(windows) == \A i, j \in DOMAIN windows : i # j => windows[i] # windows[j]

\* C2: whenever calculate succeeds for a non-Floating mode on windows with
\* distinct ids, the ids of the result are exactly the ids of the input list.
C2_ResultIdsAreInputIds ==
  (Succeeded /\ TilingCall /\ DistinctIds(arg_windows)) =>
    /\ DOMAIN result.positions = Range(arg_windows)
    /\ Cardinality(DOMAIN result.positions) = Len(arg_windows)

C2_Witness ==
  /\ Succeeded
  /\ arg_layout = MASTER_DETAIL
  /\ arg_windows = <<3, 1, 2>>
  /\ DOMAIN result.positions = {1, 2, 3}

\* C3: calculate returns the empty mapping, without error, whenever the list is
\* empty or the mode is Floating, whatever the container size and the gap.
C3_EdgeCasesReturnEmpty ==
  (Done /\ (arg_windows = <<>> \/ arg_layout = FLOATING)) =>
    /\ result.error = "none"
    /\ DOMAIN result.positions = {}

C3_Witness ==
  /\ Done
  /\ arg_layout = FLOATING
  /\ Len(arg_windows) = 2
  /\ arg_container_size.width <= 0
  /\ arg_gap < 0
  /\ result = Returned(EmptyDict)

\* C4: for a non-empty list and a mode other than Floating, calculate fails
\* with InvalidContainer when width <= 0 or height <= 0, and fails when gap < 0
\* (with InvalidGap when the container itself is valid); no mapping is returned.
C4_InvalidInputsFail ==
  (Done /\ TilingCall) =>
    /\ (ArgW <= 0 \/ ArgH <= 0) =>
         (result.error = "InvalidContainer" /\ DOMAIN result.positions = {})
    /\ arg_gap < 0 => (Failed /\ DOMAIN result.positions = {})
    /\ (arg_gap < 0 /\ ArgW > 0 /\ ArgH > 0) => result.error = "InvalidGap"

C4_Witness ==
  /\ Done /\ TilingCall
  /\ arg_layout = MASTER_DETAIL /\ Len(arg_windows) = 1
  /\ ArgW = 0 /\ arg_gap = 0
  /\ result.error = "InvalidContainer"

\* C5: in HorizontalSplit a successful calculate gives every window width
\* floor((W - (n+1)h) / n) and height H - 2v, and puts the window at index i
\* at x = h + i(width + h), y = v, where h = 2v.
C5_HorizontalSplitGeometry ==
  (Succeeded /\ arg_windows # <<>> /\ arg_layout = HORIZONTAL_SPLIT) =>
    LET width == (ArgW - (ArgN + 1) * ArgHGap) \div ArgN
    IN  \A n \in 1..ArgN :
          GeomAt(n) = [x |-> ArgHGap + (n - 1) * (width + ArgHGap), y |-> ArgVGap,
                       width |-> width, height |-> ArgH - 2 * ArgVGap]

\* container (100,40), n = 2, gap 0: two windows of (50,40) at x = 0 and x = 50
C5_Witness ==
  /\ CalledWith(2, HORIZONTAL_SPLIT, 100, 40, 0) /\ Succeeded
  /\ GeomAt(1) = [x |-> 0, y |-> 0, width |-> 50, height |-> 40]
  /\ GeomAt(2) = [x |-> 50, y |-> 0, width |-> 50, height |-> 40]

\* C6: in VerticalSplit a successful calculate gives every window height
\* floor((H - (n+1)v) / n) and width W - 2h, and puts the window at index i
\* at y = v + i(height + v), x = h, where h = 2v.
C6_VerticalSplitGeometry ==
  (Succeeded /\ arg_windows # <<>> /\ arg_layout = VERTICAL_SPLIT) =>
    LET height == (ArgH - (ArgN + 1) * ArgVGap) \div ArgN
    IN  \A n \in 1..ArgN :
          GeomAt(n) = [x |-> ArgHGap, y |-> ArgVGap + (n - 1) * (height + ArgVGap),
                       width |-> ArgW - 2 * ArgHGap, height |-> height]

C6_Witness ==
  /\ CalledWith(3, VERTICAL_SPLIT, 100, 40, 1) /\ Succeeded
  /\ GeomAt(1) = [x |-> 2, y |-> 1, width |-> 96, height |-> 12]
  /\ GeomAt(2) = [x |-> 2, y |-> 14, width |-> 96, height |-> 12]
  /\ GeomAt(3) = [x |-> 2, y |-> 27, width |-> 96, height |-> 12]

\* C7: in Grid a successful calculate uses cols = ceil(sqrt(n)) and
\* rows = ceil(n / cols), gives every window width floor((W - (cols+1)h) / cols)
\* and height floor((H - (rows+1)v) / rows), and puts the window at index i in
\* column i mod cols and row i div cols.
C7_GridGeometry ==
  (Succeeded /\ arg_windows # <<>> /\ arg_layout = GRID) =>
    \E cols, rows \in 1..ArgN :
      /\ (cols - 1) * (cols - 1) < ArgN /\ ArgN <= cols * cols
      /\ (rows - 1) * cols < ArgN /\ ArgN <= rows * cols
      /\ LET width == (ArgW - (cols + 1) * ArgHGap) \div cols
             height == (ArgH - (rows + 1) * ArgVGap) \div rows
         IN  \A n \in 1..ArgN :
               LET col == (n - 1) % cols
                   row == (n - 1) \div cols
               IN  GeomAt(n) = [x |-> ArgHGap + col * (width + ArgHGap),
                                y |-> ArgVGap + row * (height + ArgVGap),
                                width |-> width, height |-> height]

\* n = 4, container (80,40), gap 0: a 2x2 grid of (40,20) cells
C7_Witness ==
  /\ CalledWith(4, GRID, 80, 40, 0) /\ Succeeded
  /\ GeomAt(1) = [x |-> 0, y |-> 0, width |-> 40, height |-> 20]
  /\ GeomAt(2) = [x |-> 40, y |-> 0, width |-> 40, height |-> 20]
  /\ GeomAt(3) = [x |-> 0, y |-> 20, width |-> 40, height |-> 20]
  /\ GeomAt(4) = [x |-> 40, y |-> 20, width |-> 40, height |-> 20]

\* C8: in MasterDetail, a single window is placed at (h, v) with size
\* (W - 2h, H - 2v); with n > 1 the first window is the master at (h, v), of
\* width 60% of (W - 2h) truncated and height H - 2v, and the detail window at
\* index i has width (W - 2h) - master_width - h, height floor((H - n v)/(n-1)),
\* x = h + master_width + h and y = v + (i-1)(detail_height + v).
C8_MasterDetailGeometry ==
  (Succeeded /\ arg_windows # <<>> /\ arg_layout = MASTER_DETAIL) =>
    LET total == ArgW - 2 * ArgHGap
    IN  IF ArgN = 1
        THEN GeomAt(1) = [x |-> ArgHGap, y |-> ArgVGap,
                          width |-> total, height |-> ArgH - 2 * ArgVGap]
        ELSE \E master_width \in 0..ArgW :
               /\ 10 * master_width <= 6 * total
               /\ 6 * total < 10 * (master_width + 1)
               /\ GeomAt(1) = [x |-> ArgHGap, y |-> ArgVGap,
                               width |-> master_width, height |-> ArgH - 2 * ArgVGap]
               /\ LET detail_height == (ArgH - ArgN * ArgVGap) \div (ArgN - 1)
                  IN  \A n \in 2..ArgN :
                        GeomAt(n) = [x |-> ArgHGap + master_width + ArgHGap,
                                     y |-> ArgVGap + (n - 2) * (detail_height + ArgVGap),
                                     width |-> total - master_width - ArgHGap,
                                     height |-> detail_height]

\* n = 3, container (100,30), gap 0: master (0,0) of (60,30), details of (40,15)
C8_Witness ==
  /\ CalledWith(3, MASTER_DETAIL, 100, 30, 0) /\ Succeeded
  /\ GeomAt(1) = [x |-> 0, y |-> 0, width |-> 60, height |-> 30]
  /\ GeomAt(2) = [x |-> 60, y |-> 0, width |-> 40, height |-> 15]
  /\ GeomAt(3) = [x |-> 60, y |-> 15, width |-> 40, height |-> 15]

\* the permutations of 1..n, for every list length
AllPerms ==
  [n \in 0..MaxLen |->
     {q \in [1..n -> 1..n] : \A i, j \in 1..n : i # j => q[i] # q[j]}]

\* C9: the geometry at each index does not depend on which window stands
\* there: for every permutation of the input list (distinct ids), calculate
\* fails or succeeds alike and gives each index the same position and size.
C9_GeometryDependsOnIndexOnly ==
  (Done /\ DistinctIds(arg_windows)) =>
    \A q \in AllPerms[ArgN] :
      LET permuted == [n \in 1..ArgN |-> arg_windows[q[n]]]
          other == calculate_tiling_positions(permuted, arg_layout, arg_container_size, arg_gap)
      IN  /\ other.error = result.error
          /\ DOMAIN other.positions = DOMAIN result.positions
          /\ (Succeeded /\ TilingCall) =>
               \A n \in 1..ArgN : other.positions[permuted[n]] = GeomAt(n)

C9_Witness ==
  /\ Succeeded
  /\ arg_layout = MASTER_DETAIL
  /\ arg_windows = <<2, 3, 1>>
  /\ GeomAt(1).width > GeomAt(2).width
  /\ GeomAt(2).y < GeomAt(3).y

(***************************************************************************)
(* Properties of the manager, checked under Spec.                          *)
(***************************************************************************)
\* position and size of every Window object
Geometry(w) ==
  [o \in Objs |-> [x |-> w[o].x, y |-> w[o].y, width |-> w[o].width, height |-> w[o].height,
                   starting_width |-> w[o].starting_width,
                   starting_height |-> w[o].starting_height]]

\* the calculator fails on the windows that are open now, in the mode, screen
\* and gap of now
LayoutCannotFit ==
  /\ tiling_layout # FLOATING
  /\ open_windows_in_order(Mgr) # <<>>
  /\ calculate_tiling_positions(WindowIdsOf(open_windows_in_order(Mgr)), tiling_layout,
                                screen_size, window_gap).error # "none"

RetileFailureLogged(o) ==
  o.warned \in {"Retiling failed", "Retiling with order failed"}

\* C10: when the calculator fails during retileAll or retileWithOrder, the
\* call returns normally, the layout mode becomes Floating, and no window's
\* position or size is changed by the call.  Stated for a direct call made
\* while the layout cannot fit, and for every operation in which a retile
\* logged its failure.
C10_RetileFailureFallsBack ==
  [][ /\ ( /\ ops' = ops + 1
           /\ outcome'.op \in {"retile_all_windows", "retile_windows_with_order"}
           /\ LayoutCannotFit )
        => ( /\ outcome'.raised = "none"
             /\ RetileFailureLogged(outcome')
             /\ tiling_layout' = FLOATING
             /\ Geometry(win') = Geometry(win) )
      /\ ( ops' = ops + 1 /\ RetileFailureLogged(outcome') )
        => ( /\ outcome'.raised = "none"
             /\ tiling_layout' = FLOATING
             /\ Geometry(win') = Geometry(win) )
    ]_vars

\* a reordering retile has just failed on two open windows, one of which still
\* has the geometry an earlier successful retile gave it
C10_Witness ==
  /\ outcome.op = "retile_windows_with_order"
  /\ outcome.warned = "Retiling with order failed"
  /\ outcome.raised = "none"
  /\ tiling_layout = FLOATING
  /\ Len(open_windows_in_order(Mgr)) = 2
  /\ \E o \in RegisteredWindows :
       win[o].width = screen_size.width /\ win[o].x = container_offset.x
(***************************************************************************)
(* Registry and focus bookkeeping, checked under Spec.                     *)
(***************************************************************************)
\* the last step ran operation op to its end
Ran(op) == outcome.op = op /\ outcome.raised = "none"

\* C11: in every reachable state the tiling order holds exactly the ids that
\* are keys of the registry, each once.
C11_TilingOrderMatchesRegistry ==
  /\ Range(_window_order) = DictKeys(_windows)
  /\ Cardinality(Range(_window_order)) = Len(_window_order)

\* a window unregistered after the order had been rotated, and the order still
\* holds the two remaining ids in their rotated order
C11_Witness ==
  /\ Ran("unregister_window")
  /\ _window_order = <<3, 1>>
  /\ DictKeys(_windows) = {1, 3}

\* C12: in every reachable state the focus-recency list holds exactly the
\* registered windows, each once.
C12_FocusOrderIsRegistry ==
  /\ Range(_recent_focus_order) = RegisteredWindows
  /\ Cardinality(Range(_recent_focus_order)) = Len(_recent_focus_order)

\* C13: in every reachable state the last-focused window is none or a
\* registered window, and the focus-recency list references registered
\* windows only; so after a window that was last-focused has unregistered,
\* it is no longer the last-focused window.
C13_NoDanglingFocus ==
  /\ _last_focused_window = None \/ _last_focused_window \in RegisteredWindows
  /\ Range(_recent_focus_order) \subseteq RegisteredWindows
\* the step just taken is a call of operation op
Calls(op) == ops' = ops + 1 /\ outcome'.op = op

\* C14: register(w) for a window without an id fails with MissingIdentifier
\* and leaves the registry, the tiling order and the focus-recency list as
\* they were.
C14_RegisterWithoutIdFails ==
  [][ (Calls("register_window") /\ IdOf(outcome'.arg) = NoId)
        => ( /\ outcome'.raised = "MissingIdentifier"
             /\ UNCHANGED <<_windows, _window_order, _recent_focus_order>> )
    ]_vars

\* a window without an id has just tried to register with a manager that
\* holds windows
C14_Witness ==
  /\ outcome.op = "register_window"
  /\ outcome.arg = NoIdObj
  /\ outcome.raised = "MissingIdentifier"
  /\ Len(_recent_focus_order) >= 2

\* C15: register(w) for a window with an id maps the id to w in the
\* registry (the other entries stay), appends the id to the tiling order
\* iff it is not in it yet, appends w at the end of the focus-recency list
\* and keeps the last-focused window.
C15_RegisterAddsWindow ==
  [][ (Calls("register_window") /\ IdOf(outcome'.arg) # NoId)
        => LET w == outcome'.arg
               id == IdOf(outcome'.arg)
           IN  /\ outcome'.raised = "none"
               /\ DictKeys(_windows') = DictKeys(_windows) \cup {id}
               /\ DictGet(_windows', id) = w
               /\ \A k \in DictKeys(_windows) \ {id} :
                     DictGet(_windows', k) = DictGet(_windows, k)
               /\ _window_order' = IF id \in Range(_window_order)
                                   THEN _window_order
                                   ELSE Append(_window_order, id)
               /\ _recent_focus_order' = Append(_recent_focus_order, w)
               /\ UNCHANGED _last_focused_window
    ]_vars

\* a second window has registered under an id that was registered already,
\* while another window was the last-focused one
C15_Witness ==
  /\ Ran("register_window")
  /\ outcome.arg = DupObj
  /\ _last_focused_window \notin {None, DupObj}
  /\ Len(_recent_focus_order) = Len(_window_order) + 1

\* C16: unregister(w) for a window whose id is not in the registry fails
\* with NotRegistered, changes none of registry, tiling order, focus-recency
\* list, last-focused window, layout mode, gap, close-in-progress flag and
\* counters and window geometry, tells the window bar nothing and does not
\* retile.
C16_UnregisterUnknownFails ==
  [][ (Calls("unregister_window") /\ IdOf(outcome'.arg) \notin DictKeys(_windows))
        => ( /\ outcome'.raised = "NotRegistered"
             /\ outcome'.bar = "none"
             /\ outcome'.warned = "none"
             /\ UNCHANGED <<_windows, _window_order, _recent_focus_order,
                            _last_focused_window, tiling_layout, window_gap,
                            _closing_in_progress, _num_of_temporary_windows,
                            _checked_in_closing_windows, after_refresh, win>> )
    ]_vars

\* with a window bar attached, a window that is in the focus-recency list
\* but not in the registry has just tried to unregister
C16_Witness ==
  /\ outcome.op = "unregister_window"
  /\ outcome.raised = "NotRegistered"
  /\ _windowbar
  /\ outcome.arg \in Range(_recent_focus_order)

\* C17: changeFocus(w) on a non-empty focus-recency list puts w at the
\* front, once, keeps the other entries in their order and makes w the
\* last-focused window; on an empty list with no close-all in progress it
\* fails with EmptyFocusOrder and keeps the last-focused window.
C17_ChangeFocusMovesToFront ==
  [][ Calls("change_window_focus_order")
        => LET w == outcome'.arg
           IN  /\ _recent_focus_order # <<>>
                     => ( /\ outcome'.raised = "none"
                          /\ _recent_focus_order' =
                               <<w>> \o SelectSeq(_recent_focus_order, LAMBDA x : x # w)
                          /\ _last_focused_window' = w )
               /\ (_recent_focus_order = <<>> /\ ~_closing_in_progress)
                     => ( /\ outcome'.raised = "EmptyFocusOrder"
                          /\ UNCHANGED <<_last_focused_window, _recent_focus_order>> )
    ]_vars

\* the window that was last in a list of three has just taken the focus
C17_Witness ==
  /\ Ran("change_window_focus_order")
  /\ _recent_focus_order = <<3, 1, 2>>
  /\ _last_focused_window = 3
(***************************************************************************)
(* Layout mode, checked under ModeSpec and Spec.                           *)
(***************************************************************************)
\* C18: setLayoutMode(m) with m other than Floating, called in Floating
\* mode, restores every maximized registered window before the layout is
\* computed: no layout is computed while a registered window is maximized,
\* and after the call no registered window is maximized.
C18_RestoreBeforeRetile ==
  [][ (Calls("set_tiling_layout") /\ tiling_layout = FLOATING /\ outcome'.arg # FLOATING)
        => ( /\ outcome'.restored = {o \in RegisteredWindows : win[o].maximize_state}
             /\ ~outcome'.tiled_maximized
             /\ \A o \in RegisteredWindows' : ~win'[o].maximize_state )
    ]_vars

\* the second operation of the run left Floating mode, restored a maximized
\* window and tiled it across the screen
C18_Witness ==
  /\ ops = 2
  /\ Ran("set_tiling_layout")
  /\ tiling_layout # FLOATING
  /\ \E o \in outcome.restored :
       /\ win[o].open_state
       /\ win[o].x = container_offset.x
       /\ win[o].starting_width = win[o].width
       /\ win[o].width # NewWindow(o).width
\* the operations C19 names
FloatingOps ==
  {"register_window", "unregister_window", "signal_window_state", "set_window_gap",
   "retile_all_windows", "retile_windows_with_order", "move_focused_window_prev",
   "move_focused_window_next", "rotate_window_order_left", "rotate_window_order_right"}

\* C19 as stated: in Floating mode none of the named operations changes a
\* window's position or size or the tiling order, and setLayoutMode(Floating)
\* changes no window's position or size.
C19_FloatingChangesNothing ==
  [][ /\ (ops' = ops + 1 /\ tiling_layout = FLOATING /\ outcome'.op \in FloatingOps)
          => (Geometry(win') = Geometry(win) /\ _window_order' = _window_order)
      /\ (Calls("set_tiling_layout") /\ outcome'.arg = FLOATING)
          => Geometry(win') = Geometry(win)
    ]_vars

\* C19 amended: in Floating mode none of the named operations changes a
\* window's position or size; register and unregister change the tiling
\* order only by appending or removing the id of their window, and the
\* other named operations do not change the tiling order; and
\* setLayoutMode(Floating) changes no window's position or size.
C19_FloatingKeepsGeometry ==
  [][ /\ (ops' = ops + 1 /\ tiling_layout = FLOATING /\ outcome'.op \in FloatingOps)
          => /\ Geometry(win') = Geometry(win)
             /\ outcome'.op = "register_window"
                   => _window_order' =
                        IF outcome'.raised = "none"
                           /\ IdOf(outcome'.arg) \notin Range(_window_order)
                        THEN Append(_window_order, IdOf(outcome'.arg))
                        ELSE _window_order
             /\ outcome'.op = "unregister_window"
                   => _window_order' =
                        SelectSeq(_window_order,
                                  LAMBDA id : outcome'.raised # "none"
                                              \/ id # IdOf(outcome'.arg))
             /\ outcome'.op \notin {"register_window", "unregister_window"}
                   => _window_order' = _window_order
      /\ (Calls("set_tiling_layout") /\ outcome'.arg = FLOATING)
          => Geometry(win') = Geometry(win)
    ]_vars

\* back in Floating mode with a window still holding its tiled geometry, a
\* reordering retile has just been called
C19_Witness ==
  /\ outcome.op = "retile_windows_with_order"
  /\ outcome.warned = "none"
  /\ tiling_layout = FLOATING
  /\ Len(outcome.arg) >= 2
  /\ \E o \in RegisteredWindows :
       win[o].x = container_offset.x /\ win[o].width # NewWindow(o).width
(***************************************************************************)
(* The gap, checked under Spec.                                            *)
(***************************************************************************)
\* tiling the windows that are open now with gap g fails
GapRejected(g) ==
  /\ tiling_layout # FLOATING
  /\ open_windows_in_order(Mgr) # <<>>
  /\ calculate_tiling_positions(WindowIdsOf(open_windows_in_order(Mgr)), tiling_layout,
                                screen_size, g).error # "none"

\* C20: the vertical gap is never negative, before and after every step;
\* setGap(g) with g < 0 fails with
\* InvalidGap and keeps the gap; adjustGap(delta) never raises and sets the
\* gap to max(0, gap + delta), or keeps the gap when that value is rejected.
C20_GapNeverNegative ==
  [][ /\ window_gap >= 0
      /\ window_gap' >= 0
      /\ (Calls("set_window_gap") /\ outcome'.arg < 0)
           => (outcome'.raised = "InvalidGap" /\ window_gap' = window_gap)
      /\ Calls("adjust_window_gap")
           => LET sum == window_gap + outcome'.arg
                  new_gap == IF sum > 0 THEN sum ELSE 0
              IN  /\ outcome'.raised = "none"
                  /\ window_gap' = IF GapRejected(new_gap) THEN window_gap ELSE new_gap
    ]_vars

\* in a tiling mode, an adjustment by +1 has just been turned down: the gap
\* is still 0 and nothing was raised
C20_Witness ==
  /\ outcome.op = "adjust_window_gap"
  /\ outcome.arg = 1
  /\ outcome.raised = "none"
  /\ window_gap = 0
  /\ tiling_layout # FLOATING
(***************************************************************************)
(* Retiling and reordering, checked under Spec.                            *)
(***************************************************************************)
\* the windows the registry holds that are open, in tiling order
OpenWindows == open_windows_in_order(Mgr)

\* the smallest size a tiled window may have
TooSmall(size) == size.width < 12 \/ size.height < 6

\* tiling the windows that are open now with gap g fails, or gives some
\* window a width below 12 or a height below 6
GapLeavesWindowTooSmall(g) ==
  LET r == calculate_tiling_positions(WindowIdsOf(OpenWindows), tiling_layout,
                                      screen_size, g)
  IN  r.error # "none" \/ \E id \in DOMAIN r.positions : TooSmall(r.positions[id])

\* in geometry w, every window of the list has the position and size the
\* calculator gives it in this list, shifted by the container offset
TiledAs(w, windows, layout, gap) ==
  calculate_tiling_positions(WindowIdsOf(windows), layout, screen_size, gap)
    = Returned([id \in Range(WindowIdsOf(windows)) |->
                  LET o == CHOOSE o \in Range(windows) : IdOf(o) = id
                  IN  Geom(w[o].x - container_offset.x, w[o].y - container_offset.y,
                           w[o].width, w[o].height)])

\* C21: in a tiling mode with at least one open window, setGap(g) with
\* g >= 0 is rejected with GapTooLarge, leaving gap, layout mode and every
\* window's geometry unchanged, whenever tiling the open windows with gap g
\* would give some window a width below 12 or a height below 6; otherwise g
\* is committed and the windows are retiled with it, so that no accepted gap
\* leaves a tiled window smaller than 12x6.
C21_GapKeepsMinimumSize ==
  [][ ( /\ Calls("set_window_gap")
        /\ outcome'.arg >= 0
        /\ tiling_layout # FLOATING
        /\ OpenWindows # <<>> )
        => IF GapLeavesWindowTooSmall(outcome'.arg)
           THEN /\ outcome'.raised = "GapTooLarge"
                /\ UNCHANGED <<window_gap, tiling_layout>>
                /\ Geometry(win') = Geometry(win)
           ELSE /\ outcome'.raised = "none"
                /\ window_gap' = outcome'.arg
                /\ TiledAs(win', OpenWindows, tiling_layout, outcome'.arg)
                /\ \A o \in Range(OpenWindows) : ~TooSmall(win'[o])
    ]_vars

\* the step just taken is one of the operations that retile: unregister, an
\* open/close state signal, window-ready, a change of the layout mode, an
\* accepted change of the gap
RetilingCall ==
  /\ ops' = ops + 1
  /\ outcome'.raised = "none"
  /\ \/ outcome'.op \in {"unregister_window", "signal_window_state", "window_ready"}
     \/ outcome'.op = "set_tiling_layout" /\ tiling_layout # outcome'.arg
     \/ outcome'.op \in {"set_window_gap", "adjust_window_gap"} /\ window_gap' # window_gap

MoveOps == {"move_focused_window_prev", "move_focused_window_next"}
RotateOps == {"rotate_window_order_left", "rotate_window_order_right"}

\* the step just taken is a move or a rotation
ReorderingCall == ops' = ops + 1 /\ outcome'.op \in MoveOps \cup RotateOps

\* the step just taken is a move or a rotation that found something to
\* reorder: two open windows at least and, for a move, the last-focused
\* window among them
EffectiveReorderingCall ==
  /\ ReorderingCall
  /\ Len(OpenWindows) >= 2
  /\ outcome'.op \in MoveOps => _last_focused_window \in Range(OpenWindows)

\* when, after the step, the mode is a tiling mode and some window is open,
\* then every open registered window lies where the calculator puts it for
\* the open windows in tiling order, the mode, the container and the gap of
\* then, and the step gave no other window a position or size
RetiledByStep ==
  \A after \in {Mgr'} :
    LET open_windows == open_windows_in_order(after)
    IN  (after.tiling_layout # FLOATING /\ open_windows # <<>>)
          => /\ TiledAs(after.win, open_windows, after.tiling_layout, after.window_gap)
             /\ \A o \in Objs \ Range(open_windows) :
                  /\ after.win[o].x = win[o].x
                  /\ after.win[o].y = win[o].y
                  /\ after.win[o].width = win[o].width
                  /\ after.win[o].height = win[o].height

\* C22 as stated: after any of unregister, open/close state signal,
\* window-ready, a layout-mode change, an accepted gap change, a move or a
\* rotation completes with the mode still not Floating and a window open,
\* every open registered window has the calculated geometry and closed
\* windows are given none.
C22_GeometryAfterAnyRetilingOp ==
  [][ (RetilingCall \/ ReorderingCall) => RetiledByStep ]_vars

\* C22 amended: the same, for a move or a rotation only when it found
\* something to reorder.
C22_GeometryAfterRetile ==
  [][ (RetilingCall \/ EffectiveReorderingCall) => RetiledByStep ]_vars

\* a rotation has just retiled two open windows in their new order, side by
\* side, while the closed third window still has the geometry it was
\* constructed with
C22_Witness ==
  /\ Ran("rotate_window_order_left")
  /\ tiling_layout = HORIZONTAL_SPLIT
  /\ WindowIdsOf(OpenWindows) = <<2, 1>>
  /\ win[2].x = container_offset.x
  /\ win[1].x > win[2].x
  /\ 3 \in RegisteredWindows
  /\ ~win[3].open_state
  /\ win[3].width = NewWindow(3).width

(***************************************************************************)
(* The stored tiling order, checked under OrderSpec and Spec.              *)
(***************************************************************************)
\* C23: in a tiling mode, retileWithOrder(S) for a non-empty sequence S of
\* registered windows sets the stored tiling order to the ids of S in the
\* given order, followed by every previously tracked id not in S, in their
\* previous relative order.
C23_RetileWithOrderStoresOrder ==
  [][ ( /\ Calls("retile_windows_with_order")
        /\ tiling_layout # FLOATING
        /\ outcome'.arg # <<>> )
        => LET given == WindowIdsOf(outcome'.arg)
               n == Len(given)
           IN  /\ outcome'.raised = "none"
               /\ Len(_window_order') >= n
               /\ SubSeq(_window_order', 1, n) = given
               /\ SubSeq(_window_order', n + 1, Len(_window_order'))
                    = SelectSeq(_window_order, LAMBDA id : id \notin Range(given))
    ]_vars

\* the third of three windows alone was handed over: it leads the stored
\* order and the two others follow as they were
C23_Witness ==
  /\ Ran("retile_windows_with_order")
  /\ outcome.arg = <<3>>
  /\ _window_order = <<3, 1, 2>>

\* the index (from 0) of window o in the list
IndexIn(windows, o) == ListIndex(windows, o)

\* the list without window o
Without(windows, o) == SelectSeq(windows, LAMBDA x : x # o)

\* a move is called in a tiling mode with n >= 2 open windows, the
\* last-focused window among them
MoveCase(op) ==
  /\ Calls(op)
  /\ tiling_layout # FLOATING
  /\ Len(OpenWindows) >= 2
  /\ _last_focused_window \in Range(OpenWindows)

\* C24: in a tiling mode with n >= 2 open windows and the last-focused
\* window at index i of the open windows in tiling order, moveFocusedPrev
\* leaves it at index (i - 1) mod n (from index 0 at the last index n - 1),
\* and the other open windows keep their relative order.
C24_MovePrevShiftsEarlier ==
  [][ MoveCase("move_focused_window_prev")
        => LET w == _last_focused_window
               n == Len(OpenWindows)
               i == IndexIn(OpenWindows, w)
           IN  /\ Range(OpenWindows') = Range(OpenWindows)
               /\ IndexIn(OpenWindows', w) = (i - 1) % n
               /\ Without(OpenWindows', w) = Without(OpenWindows, w)
    ]_vars

\* C25: in a tiling mode with n >= 2 open windows and the last-focused
\* window at index i of the open windows in tiling order, moveFocusedNext
\* leaves it at index (i + 1) mod n, and the other open windows keep their
\* relative order.
C25_MoveNextShiftsLater ==
  [][ MoveCase("move_focused_window_next")
        => LET w == _last_focused_window
               n == Len(OpenWindows)
               i == IndexIn(OpenWindows, w)
           IN  /\ Range(OpenWindows') = Range(OpenWindows)
               /\ IndexIn(OpenWindows', w) = (i + 1) % n
               /\ Without(OpenWindows', w) = Without(OpenWindows, w)
    ]_vars

\* a rotation is called in a tiling mode with at least 2 open windows
RotateCase(op) == Calls(op) /\ tiling_layout # FLOATING /\ Len(OpenWindows) >= 2

\* C26: in a tiling mode with at least 2 open windows, rotateOrderLeft
\* shifts the open windows (in tiling order) cyclically by one so that the
\* first becomes last, and rotateOrderRight so that the last becomes first;
\* rotateOrderLeft applied twice to three open windows [A,B,C], the mode
\* staying a tiling mode in between, yields [C,A,B].
C26_RotateShiftsCyclically ==
  [][ /\ RotateCase("rotate_window_order_left")
           => \A after \in {Mgr'} :
                /\ open_windows_in_order(after) = Tail(OpenWindows) \o <<Head(OpenWindows)>>
                /\ (Len(OpenWindows) = 3 /\ after.tiling_layout # FLOATING)
                     => open_windows_in_order(rotate_window_order_left(after))
                          = <<OpenWindows[3], OpenWindows[1], OpenWindows[2]>>
      /\ RotateCase("rotate_window_order_right")
           => \A after \in {Mgr'} :
                open_windows_in_order(after)
                  = <<OpenWindows[Len(OpenWindows)]>>
                      \o SubSeq(OpenWindows, 1, Len(OpenWindows) - 1)
    ]_vars

\* three windows, tiled and then rotated left twice
C26_Witness ==
  /\ ops = 3
  /\ Ran("rotate_window_order_left")
  /\ tiling_layout # FLOATING
  /\ WindowIdsOf(OpenWindows) = <<3, 1, 2>>
  /\ win[3].x = container_offset.x /\ win[3].y = container_offset.y

\* the step changed neither the tiling order nor the layout mode nor any
\* window's position or size
TilingUntouched ==
  /\ UNCHANGED <<_window_order, tiling_layout>>
  /\ Geometry(win') = Geometry(win)

\* C27: the two moves and the two rotations leave the tiling order, the
\* layout mode and every window's position and size unchanged when the mode
\* is Floating or fewer than 2 windows are open; the moves also when there
\* is no last-focused window or it is not among the open windows.
C27_ReorderingNoOps ==
  [][ /\ (ReorderingCall /\ (tiling_layout = FLOATING \/ Len(OpenWindows) < 2))
           => TilingUntouched
      /\ ( /\ ops' = ops + 1
           /\ outcome'.op \in MoveOps
           /\ \/ _last_focused_window = None
              \/ _last_focused_window \notin Range(OpenWindows) )
           => TilingUntouched
    ]_vars

\* a move has just been called in a tiling mode with two windows open, the
\* last-focused window being none of them
C27_Witness ==
  /\ outcome.op \in MoveOps
  /\ outcome.raised = "none"
  /\ tiling_layout # FLOATING
  /\ Len(OpenWindows) >= 2
  /\ _last_focused_window # None
  /\ _last_focused_window \notin Range(OpenWindows)

(***************************************************************************)
(* Focus cycling, checked under FocusSpec.                                 *)
(***************************************************************************)
\* focusNext or focusPrevious is called while the last-focused window is in
\* the focus-recency list
CycleCase(op) == Calls(op) /\ _last_focused_window \in Range(_recent_focus_order)

\* the window one place after (step = 1) or before (step = -1) the
\* last-focused window in the focus-recency list, wrapping around
Candidate(step) ==
  LET i == ListIndex(_recent_focus_order, _last_focused_window)
      L == Len(_recent_focus_order)
  IN  _recent_focus_order[((i + step) % L) + 1]

\* C28 as stated: focusNext (focusPrevious) gives focus to the window at
\* index (i + 1) mod L (respectively (i - 1) mod L) of the focus-recency
\* list, open or not.
C28_CycleLandsOnCandidate ==
  [][ /\ CycleCase("focus_next_window") => outcome'.focused = Candidate(1)
      /\ CycleCase("focus_previous_window") => outcome'.focused = Candidate(-1)
    ]_vars

\* C28 amended: focusNext (focusPrevious) gives focus to the window at index
\* (i + 1) mod L (respectively (i - 1) mod L) of the focus-recency list if
\* that window is open; if it is not open, no window is given focus and the
\* focus-recency list and the last-focused window stay as they are (closed
\* windows are not skipped).
C28_CycleLandsOnOpenCandidate ==
  [][ /\ CycleCase("focus_next_window")
           => IF win[Candidate(1)].open_state
              THEN outcome'.focused = Candidate(1)
              ELSE /\ outcome'.focused = None
                   /\ UNCHANGED <<_recent_focus_order, _last_focused_window>>
      /\ CycleCase("focus_previous_window")
           => IF win[Candidate(-1)].open_state
              THEN outcome'.focused = Candidate(-1)
              ELSE /\ outcome'.focused = None
                   /\ UNCHANGED <<_recent_focus_order, _last_focused_window>>
    ]_vars

\* focusNext has just been called with a closed window next in line and an
\* open one after it: no window was given the focus
C28_Witness ==
  /\ Ran("focus_next_window")
  /\ Len(_recent_focus_order) >= 3
  /\ _last_focused_window \in Range(_recent_focus_order)
  /\ ~win[Candidate(1)].open_state
  /\ \E o \in Range(_recent_focus_order) : o # _last_focused_window /\ win[o].open_state
  /\ outcome.focused = None

(***************************************************************************)
(* The tiling queries, checked under QuerySpec.                            *)
(***************************************************************************)
QueryOps == {"get_tiling_position", "get_tiling_size"}

\* the mapping a query computes: the calculator's result for the open
\* windows in the mode, container and gap of now
QueryMapping ==
  calculate_tiling_positions(WindowIdsOf(open_windows_in_dict_order(Mgr)), tiling_layout,
                             screen_size, window_gap)

\* what a query about window w returns from the mapping
QueryAnswer(op, w) ==
  LET g == QueryMapping.positions[IdOf(w)]
  IN  IF op = "get_tiling_position"
      THEN [kind |-> "Offset", x |-> g.x + container_offset.x, y |-> g.y + container_offset.y]
      ELSE [kind |-> "Size", width |-> g.width, height |-> g.height]

\* C29: getPositionFor(w) and getSizeFor(w) fail with NotTiling when the
\* mode is Floating, fail with WindowNotFound when w is not among the open
\* windows of the computed mapping (including when no window is open at
\* all), and otherwise return w's calculated position (plus container
\* offset) or size.  (Stated for the calls in which the calculator does not
\* fail.)
C29_QueryOutcomes ==
  [][ (ops' = ops + 1 /\ outcome'.op \in QueryOps)
        => LET w == outcome'.arg
               open_windows == open_windows_in_dict_order(Mgr)
           IN  IF tiling_layout = FLOATING
               THEN outcome'.raised = "NotTiling"
               ELSE IF open_windows = <<>>
               THEN outcome'.raised = "WindowNotFound"
               ELSE QueryMapping.error = "none"
                      => IF IdOf(w) \notin Range(WindowIdsOf(open_windows))
                         THEN outcome'.raised = "WindowNotFound"
                         ELSE /\ outcome'.raised = "none"
                              /\ outcome'.returned = QueryAnswer(outcome'.op, w)
    ]_vars

\* the operations C30 names
CalculatorCallers ==
  {"set_tiling_layout", "unregister_window", "signal_window_state",
   "move_focused_window_prev", "move_focused_window_next", "rotate_window_order_left",
   "rotate_window_order_right", "retile_all_windows", "retile_windows_with_order",
   "get_tiling_position", "get_tiling_size"}

\* the operation logged a failure of the calculator
CalculatorFailureLogged(o) ==
  o.warned \in {"Retiling failed", "Retiling with order failed",
                "Tiling calculation failed, falling back to floating mode"}

\* C30: a failure of the layout calculator never reaches the caller of a
\* manager operation: in setLayoutMode, unregister, open/close state signal,
\* move, rotate, retileAll, retileWithOrder, getPositionFor and getSizeFor it
\* is caught and resolved by switching the mode to Floating, and the
\* operation does not raise because of it.
C30_CalculatorFailureIsContained ==
  [][ ( /\ ops' = ops + 1
        /\ outcome'.op \in CalculatorCallers
        /\ CalculatorFailureLogged(outcome') )
        => (tiling_layout' = FLOATING /\ outcome'.raised = "none")
    ]_vars

(***************************************************************************)
(* Close-all, checked under CloseSpec.                                     *)
(***************************************************************************)
\* C31: after close-all has started, once every temporary window has
\* unregistered and the deferred after-refresh callback has run, the
\* close-in-progress flag is false again and both counters are 0, and from
\* then on changeFocus on an empty focus-recency list fails with
\* EmptyFocusOrder again.
C31_CloseAllFinishes ==
  [][ Calls("closing_finished")
        => \A after \in {Mgr'} :
             /\ ~after._closing_in_progress
             /\ after._num_of_temporary_windows = 0
             /\ after._checked_in_closing_windows = 0
             /\ after._recent_focus_order = <<>>
                  => \A w \in Objs :
                       change_window_focus_order(after, w).raised = "EmptyFocusOrder"
    ]_vars

(***************************************************************************)
(* The calculator's rectangles, checked under CalcSpec.                    *)
(***************************************************************************)
\* rectangle g lies inside the container and is not empty
InsideContainer(g) ==
  /\ g.x >= 0 /\ g.y >= 0
  /\ g.width > 0 /\ g.height > 0
  /\ g.x + g.width <= ArgW
  /\ g.y + g.height <= ArgH

\* rectangles g and h have a cell in common
Overlap(g, h) ==
  /\ g.x < h.x + h.width /\ h.x < g.x + g.width
  /\ g.y < h.y + h.height /\ h.y < g.y + g.height

\* C32: whenever calculate succeeds for a non-Floating mode, every resulting
\* rectangle lies inside the container (x >= 0, y >= 0, x + width <= W,
\* y + height <= H, width > 0, height > 0) and no two resulting rectangles
\* overlap, for every mode, window count, container size and gap >= 0.
C32_RectanglesInsideAndDisjoint ==
  (Succeeded /\ arg_layout # FLOATING /\ arg_gap >= 0)
    => /\ \A id \in DOMAIN result.positions : InsideContainer(result.positions[id])
       /\ \A id1, id2 \in DOMAIN result.positions :
            id1 # id2 => ~Overlap(result.positions[id1], result.positions[id2])

(***************************************************************************)
(* Properties of the TitleBar and the Resizer, checked under DragSpec.     *)
(***************************************************************************)
\* the element has at most one callback scheduled and not yet run, and its
\* pending flag is set exactly while it has one
OneCallbackAtMost(element) ==
  /\ element.scheduled <= 1
  /\ element._update_pending <=> (element.scheduled = 1)

\* C33: for the TitleBar and for the Resizer, whatever the order of mouse
\* moves, passing time and after-refresh callbacks, at most one deferred
\* callback is scheduled and not yet run at any moment, and _update_pending is
\* true exactly while one is.
C33_OneDeferredCallback == OneCallbackAtMost(titlebar) /\ OneCallbackAtMost(resizer)

\* the Resizer has a callback scheduled, the TitleBar has applied a move at
\* once since, and has scheduled a callback for the next one
C33_Witness ==
  /\ resizer.scheduled = 1 /\ resizer._update_pending
  /\ titlebar.scheduled = 1 /\ titlebar._update_pending
  /\ titlebar.received = Offset(1, 1)
  /\ outcome.op = "TitleBar.on_mouse_move"

\* the TitleBar is dragging the window, which is not snapped
DraggingUnsnapped == mouse_captured = "TitleBar" /\ ~win[Dragged].snap_state

WindowOffset == Offset(win[Dragged].x, win[Dragged].y)

\* the step runs the callback the TitleBar scheduled, and the callback
\* applies all the movement accumulated by then
CallbackAppliesAll ==
  (Calls("TitleBar._apply_accumulated_movement") /\ ~win[Dragged].snap_state)
    => /\ WindowOffset' = Plus(WindowOffset, titlebar._accumulated_delta)
       /\ titlebar'._accumulated_delta = Offset(0, 0)

\* C34 as stated: during a title-bar drag of an unsnapped window, whenever no
\* deferred callback is pending the window offset is its offset at drag start
\* plus the sum of the move deltas received so far, and a deferred callback
\* applies all the movement accumulated up to the moment it runs.
C34_DragFromOffsetAtStart ==
  [][ /\ (DraggingUnsnapped' /\ ~titlebar'._update_pending)
          => WindowOffset' = Plus(titlebar'.offset_on_down, titlebar'.received)
      /\ CallbackAppliesAll ]_vars

\* C34, amended: the movement that was accumulated and not yet applied when
\* the drag started is counted as well.
C34_DragLosesNothing ==
  [][ /\ (DraggingUnsnapped' /\ ~titlebar'._update_pending)
          => WindowOffset' = Plus(Plus(titlebar'.offset_on_down, titlebar'.carried),
                                  titlebar'.received)
      /\ CallbackAppliesAll ]_vars

\* a drag that started with movement of the drag before still waiting for its
\* callback; the callback has run and has applied that movement together with
\* the moves of this drag
C34_Witness ==
  /\ DraggingUnsnapped
  /\ outcome.op = "TitleBar._apply_accumulated_movement"
  /\ titlebar.carried = Offset(0, 1)
  /\ titlebar.received = Offset(1, 0)
  /\ WindowOffset = Plus(titlebar.offset_on_down, Offset(1, 1))

ResizerOps ==
  {"Resizer.on_mouse_down", "Resizer.on_mouse_move", "Resizer.on_mouse_up",
   "Resizer._apply_resize"}

\* C35: while the layout mode is not FLOATING no handler of the Resizer
\* changes the window's width or height, the callback scheduled in FLOATING
\* mode and run after the mode became a tiling mode included.
C35_NoResizeWhileTiling ==
  [][ (ops' = ops + 1 /\ outcome'.op \in ResizerOps /\ tiling_layout # FLOATING)
        => /\ win'[Dragged].width = win[Dragged].width
           /\ win'[Dragged].height = win[Dragged].height ]_vars

(***************************************************************************)
(* The manager's reordering operations and the buttons, checked under      *)
(* ButtonSpec.                                                             *)
(***************************************************************************)
\* the last-focused window is registered and open
LastFocusedIsOpen ==
  /\ _last_focused_window \in RegisteredWindows
  /\ win[_last_focused_window].open_state

\* C36: from the same state, with the last-focused window w open,
\* move_focused_window_prev leaves the tiling order that MovePrevButton
\* pressed on w leaves, move_focused_window_next the one MoveNextButton
\* pressed on w leaves, and rotate_window_order_left and _right the ones
\* RotateLeftButton and RotateRightButton leave.
C36_ManagerEqualsButtons ==
  [][ /\ (Calls("move_focused_window_prev") /\ LastFocusedIsOpen)
          => _window_order' = _move_window_prev(Mgr, _last_focused_window)._window_order
      /\ (Calls("move_focused_window_next") /\ LastFocusedIsOpen)
          => _window_order' = _move_window_next(Mgr, _last_focused_window)._window_order
      /\ Calls("rotate_window_order_left")
          => _window_order' = _rotate_list_left(Mgr)._window_order
      /\ Calls("rotate_window_order_right")
          => _window_order' = _rotate_list_right(Mgr)._window_order ]_vars

(***************************************************************************)
(* The queries against the geometry a retile applied, checked under        *)
(* PlacementSpec.                                                          *)
(***************************************************************************)
\* the windows lie where a successful retile of the open windows, in tiling
\* order, puts them
Retiled ==
  /\ tiling_layout # FLOATING
  /\ OpenWindows # <<>>
  /\ TiledAs(win, OpenWindows, tiling_layout, window_gap)

\* the position or the size window w has
Applied(op, w) ==
  IF op = "get_tiling_position"
  THEN [kind |-> "Offset", x |-> win[w].x, y |-> win[w].y]
  ELSE [kind |-> "Size", width |-> win[w].width, height |-> win[w].height]

\* C37: in a tiling mode, once the windows have been retiled after register,
\* unregister, move and rotate operations, get_tiling_position(w) and
\* get_tiling_size(w) return for every open window w the position and the
\* size the retile applied to w.
C37_QueriesAgreeWithRetile ==
  [][ ( /\ ops' = ops + 1
        /\ outcome'.op \in QueryOps
        /\ Retiled
        /\ outcome'.arg \in Range(OpenWindows) )
        => /\ outcome'.raised = "none"
           /\ outcome'.returned = Applied(outcome'.op, outcome'.arg) ]_vars

(***************************************************************************)
(* The queries as readers, checked under ReadSpec.                         *)
(***************************************************************************)
ReadOps == QueryOps \cup {"get_tiling_layout", "get_window_gap"}

\* the step leaves gap, registry, tiling order, focus-recency list,
\* last-focused window and every window's fields as they were
ReadsOnlyButMode ==
  /\ UNCHANGED <<window_gap, _windows, _window_order, _recent_focus_order,
                 _last_focused_window>>
  /\ win' = win

\* the calculator fails on what a position or size query hands it now
QueryCalculationFails ==
  /\ tiling_layout # FLOATING
  /\ open_windows_in_dict_order(Mgr) # <<>>
  /\ QueryMapping.error # "none"

\* C38 as stated: get_tiling_position, get_tiling_size, get_tiling_layout and
\* get_window_gap, whether they return or fail, leave the layout mode, the
\* gap, the registry, the tiling order, the focus-recency list, the
\* last-focused window and every window's geometry unchanged.
C38_QueriesReadOnly ==
  [][ (ops' = ops + 1 /\ outcome'.op \in ReadOps)
        => ReadsOnlyButMode /\ UNCHANGED tiling_layout ]_vars

\* C38 amended: the same, except that get_tiling_position and get_tiling_size
\* switch the layout mode to FLOATING when the layout calculation fails.
C38_QueriesReadOnlyButFallback ==
  [][ (ops' = ops + 1 /\ outcome'.op \in ReadOps)
        => /\ ReadsOnlyButMode
           /\ IF outcome'.op \in QueryOps /\ QueryCalculationFails
              THEN tiling_layout' = FLOATING
              ELSE UNCHANGED tiling_layout ]_vars

\* a size query has just failed on a layout that cannot fit and has left the
\* mode FLOATING, with two windows registered and nothing else changed
C38_Witness ==
  /\ outcome.op = "get_tiling_size"
  /\ outcome.raised = "TilingCalculationFailed"
  /\ tiling_layout = FLOATING
  /\ Len(_windows) = 2

(***************************************************************************)
(* Focus cycling, checked under CycleSpec.                                 *)
(***************************************************************************)
\* the windows that become last-focused, one after the other, in n further
\* calls in the same direction from state m
RECURSIVE Visited(_, _, _)
Visited(m, direction, n) ==
  IF n = 0 THEN <<>>
  ELSE LET after == cycle(m, direction)
       IN  <<after._last_focused_window>> \o Visited(after, direction, n - 1)

\* two registered windows at least, all of them open and in the focus list,
\* one of them last-focused
CyclingCase ==
  /\ Len(_recent_focus_order) >= 2
  /\ Len(_recent_focus_order) = Len(_windows)
  /\ Range(_recent_focus_order) = RegisteredWindows
  /\ \A o \in RegisteredWindows : win[o].open_state
  /\ _last_focused_window \in RegisteredWindows

\* C39: with k >= 2 registered windows, all open, one of them last-focused,
\* and every focus followed by change_window_focus_order, k - 1 calls of
\* focus_next_window in a row make each of the other windows last-focused
\* once, and so do k - 1 calls of focus_previous_window.
C39_CyclingVisitsAll ==
  [][ (Calls("cycle") /\ CyclingCase)
        => \A after \in {Mgr'} :
             LET visited == <<after._last_focused_window>>
                              \o Visited(after, outcome'.arg, Len(_windows) - 2)
             IN  Range(visited) = RegisteredWindows \ {_last_focused_window} ]_vars


(***************************************************************************)
(* A rotation and the opposite rotation after it, checked under Spec.      *)
(***************************************************************************)
\* the rotation that undoes op
Opposite(op, m) ==
  IF op = "rotate_window_order_left" THEN rotate_window_order_right(m)
  ELSE rotate_window_order_left(m)

\* the step is a rotation in a tiling mode, and the mode is still a tiling
\* mode after it and after the opposite rotation
RoundTrip(after, back) ==
  /\ ops' = ops + 1
  /\ outcome'.op \in RotateOps
  /\ tiling_layout # FLOATING
  /\ after.tiling_layout # FLOATING
  /\ back.tiling_layout # FLOATING

\* every window that was open has in w the position and size it had
OpenGeometryIs(w) ==
  \A o \in Range(OpenWindows) :
    /\ w[o].x = win[o].x /\ w[o].y = win[o].y
    /\ w[o].width = win[o].width /\ w[o].height = win[o].height

\* C40 as stated: in a tiling mode in which the layout keeps succeeding,
\* rotate_window_order_left followed by rotate_window_order_right, and the
\* other way round, leaves _window_order exactly as it was, closed windows'
\* places included, and every open window's geometry as it was.
C40_RotateRoundTrip ==
  [][ \A after \in {Mgr'} :
        \A back \in {Opposite(outcome'.op, after)} :
          RoundTrip(after, back)
            => /\ back._window_order = _window_order
               /\ OpenGeometryIs(back.win) ]_vars

\* C40 amended: the open windows are back in the order they had, and have
\* the geometry they had if they lay as tiled before; with two open windows
\* or more the ids of the other windows are behind them in _window_order, in
\* the order they had among themselves.
C40_RotateRoundTripOfOpenWindows ==
  [][ \A after \in {Mgr'} :
        \A back \in {Opposite(outcome'.op, after)} :
          RoundTrip(after, back)
            => /\ open_windows_in_order(back) = OpenWindows
               /\ back._window_order
                    = IF Len(OpenWindows) >= 2
                      THEN WindowIdsOf(OpenWindows)
                             \o SelectSeq(_window_order,
                                          LAMBDA id : id \notin Range(WindowIdsOf(OpenWindows)))
                      ELSE _window_order
               /\ (Retiled \/ Len(OpenWindows) <= 1) => OpenGeometryIs(back.win) ]_vars

\* windows 2 and 3 are open and tiled, window 1 is closed and was first in
\* the tiling order; a rotation to the left has put it last
C40_Witness ==
  /\ Ran("rotate_window_order_left")
  /\ tiling_layout # FLOATING
  /\ ~win[1].open_state
  /\ _window_order = <<3, 2, 1>>
====
